---- MODULE Spec2Model ----
(***************************************************************************)
(* State-machine model of the semicad component registry                   *)
(* (semicad/core/registry.py), the component sources it aggregates         *)
(* (semicad/sources/custom.py, semicad/sources/electronics.py) and the     *)
(* lazily built Component (semicad/core/component.py).                     *)
(*                                                                         *)
(* Python strings are modelled as sequences of one-character strings, so   *)
(* that formatting (cache keys, instance names) and splitting are computed *)
(* character by character.  Python dicts are modelled as sequences of      *)
(* <<key, value>> pairs with distinct keys, in insertion order.            *)
(***************************************************************************)
EXTENDS Integers, Sequences, FiniteSets, TLC

(***************************************************************************)
(* Bounds of the model                                                     *)
(***************************************************************************)
\* largest cache_size a registry is constructed with
MaxCacheSize == 2
\* number of registry.get calls explored in one behaviour
MaxGets == 4
\* get calls in a behaviour of the name-resolution specification
MaxLookups == 2
\* validate calls in a behaviour of the validation specification
MaxValidations == 2
\* sub-parts of an assembly a backing object yields
MaxParts == 2
\* calls made on one PartCADSource
MaxCalls == 3
\* threads that share one component, and geometry accesses each of them makes
MaxThreads == 2
MaxThreadAccesses == 2
\* number of Component objects allocated in one behaviour of the component spec
MaxComponents == 3
\* largest number of keyword parameters of one call in the cache-key spec
MaxParams == 3
\* number of geometry accesses (nested ones included) after which no caller starts another
MaxAccesses == 3

(***************************************************************************)
(* Strings                                                                 *)
(***************************************************************************)
\* the characters used, in code point order (Python compares str by code point)
Alphabet == <<"'", ",", "/", "0", "1", "2", "3", ":", "=", "_", "a", "b", "c", "k", "m", "s", "t", "u", "v">>

RECURSIVE StrLess(_, _)
\* s < t for Python str
StrLess(s, t) ==
    IF t = <<>> THEN FALSE
    ELSE IF s = <<>> THEN TRUE
    ELSE IF Head(s) = Head(t) THEN StrLess(Tail(s), Tail(t))
    ELSE LET CharOrd(c) == CHOOSE i \in 1..Len(Alphabet) : Alphabet[i] = c
         IN  CharOrd(Head(s)) < CharOrd(Head(t))

RECURSIVE Join(_, _)
\* sep.join(strs)
Join(strs, sep) ==
    IF strs = <<>> THEN <<>>
    ELSE IF Len(strs) = 1 THEN strs[1]
    ELSE strs[1] \o sep \o Join(Tail(strs), sep)

RECURSIVE SplitFrom(_, _, _)
SplitFrom(s, sep, cur) ==
    IF s = <<>> THEN <<cur>>
    ELSE IF Head(s) = sep THEN <<cur>> \o SplitFrom(Tail(s), sep, <<>>)
    ELSE SplitFrom(Tail(s), sep, Append(cur, Head(s)))

\* s.split(sep) for a one-character separator
Split(s, sep) == SplitFrom(s, sep, <<>>)

(***************************************************************************)
(* Parameter values and dicts                                              *)
(***************************************************************************)
IntV(i) == [t |-> "int", n |-> i, s |-> <<>>]
StrV(x) == [t |-> "str", n |-> 0, s |-> x]

\* decimal digits of the small non-negative integers used as parameter values
Digits(i) == <<<<"0">>, <<"1">>, <<"2">>, <<"3">>>>[i + 1]

\* repr(v): an int prints its digits, a str is quoted
Repr(v) == IF v.t = "int" THEN Digits(v.n) ELSE <<"'">> \o v.s \o <<"'">>

\* str(v): an int prints its digits, a str prints itself
Str(v) == IF v.t = "int" THEN Digits(v.n) ELSE v.s

DictKeys(d) == {d[i][1] : i \in 1..Len(d)}

DictGet(d, k) == d[CHOOSE i \in 1..Len(d) : d[i][1] = k][2]

\* d[k] = v : an existing key keeps its position, a new key is appended
DictSet(d, k, v) ==
    IF k \in DictKeys(d)
    THEN [i \in 1..Len(d) |-> IF d[i][1] = k THEN <<k, v>> ELSE d[i]]
    ELSE Append(d, <<k, v>>)

RECURSIVE DictUpdate(_, _)
\* {**d, **e}
DictUpdate(d, e) ==
    IF e = <<>> THEN d
    ELSE DictUpdate(DictSet(d, Head(e)[1], Head(e)[2]), Tail(e))

RECURSIVE InsertSorted(_, _)
InsertSorted(item, sorted) ==
    IF sorted = <<>> THEN <<item>>
    ELSE IF StrLess(item[1], Head(sorted)[1]) THEN <<item>> \o sorted
    ELSE <<Head(sorted)>> \o InsertSorted(item, Tail(sorted))

RECURSIVE SortedItems(_)
\* sorted(params.items()): keys are distinct, so items order by key
SortedItems(d) ==
    IF d = <<>> THEN <<>>
    ELSE InsertSorted(Head(d), SortedItems(Tail(d)))

(***************************************************************************)
(* registry._make_cache_key                                                *)
(***************************************************************************)
\* the mutant: the items are not sorted
MakeCacheKeyUnsorted(name, params) ==
    IF params = <<>> THEN name
    ELSE name \o <<":">> \o
         Join([i \in 1..Len(params) |->
                  params[i][1] \o <<"=">> \o Repr(params[i][2])], <<",">>)

_make_cache_key(name, params) ==
    IF params = <<>> THEN name
    ELSE LET sorted_items == SortedItems(params)
             params_str == Join([i \in 1..Len(sorted_items) |->
                                   sorted_items[i][1] \o <<"=">> \o Repr(sorted_items[i][2])],
                                <<",">>)
         IN  name \o <<":">> \o params_str

(***************************************************************************)
(* Component sources                                                       *)
(*                                                                         *)
(* A source is [name, kind, catalog]; the catalog is a dict from the       *)
(* component name to [category, required, defaults, schema].  For a        *)
(* "custom" source `defaults` is the entry's "args" and required/schema    *)
(* are unused; for an "electronics" source they are the COMPONENT_CATALOG  *)
(* tuple and the PARAM_SCHEMAS entry of the component.                     *)
(***************************************************************************)

CatalogEntry(category, required, defaults, schema) ==
    [category |-> category, required |-> required, defaults |-> defaults, schema |-> schema]

\* the result of a call that returns or raises
Raise(kind, source, detail) == [status |-> kind, source |-> source, detail |-> detail, spec |-> <<>>]
Return(source, spec) == [status |-> "ok", source |-> source, detail |-> <<>>, spec |-> spec]

ComponentSpec(name, source, category, params) ==
    [name |-> name, source |-> source, category |-> category, params |-> params]

\* isinstance(value, expected_type) for the value types of the model
IsInstance(v, types) == v.t \in types

RECURSIVE ValidateEachFailFast(_, _, _, _, _)
\* the mutant: the loop stops at the first problem it finds
ValidateEachFailFast(params, schema, unknown_params, validated, errors) ==
    IF params = <<>> \/ errors # <<>> THEN [validated |-> validated, errors |-> errors]
    ELSE LET param_name == Head(params)[1]
             value == Head(params)[2]
             rest == Tail(params)
         IN  IF param_name \in unknown_params
             THEN ValidateEachFailFast(rest, schema, unknown_params, validated, errors)
             ELSE LET param_schema == DictGet(schema, param_name)
                  IN  IF ~IsInstance(value, param_schema.types)
                      THEN [validated |-> validated,
                            errors |-> <<[kind |-> "type", keys |-> {param_name}]>>]
                      ELSE IF value.t = "int" /\ param_schema.min.has /\ value.n < param_schema.min.n
                      THEN [validated |-> validated,
                            errors |-> <<[kind |-> "min", keys |-> {param_name}]>>]
                      ELSE IF value.t = "int" /\ param_schema.max.has /\ value.n > param_schema.max.n
                      THEN [validated |-> validated,
                            errors |-> <<[kind |-> "max", keys |-> {param_name}]>>]
                      ELSE ValidateEachFailFast(rest, schema, unknown_params,
                                                DictSet(validated, param_name, value), errors)

RECURSIVE ValidateEach(_, _, _, _, _)
\* the loop "for param_name, value in params.items()" of validate_params
ValidateEach(params, schema, unknown_params, validated, errors) ==
    IF params = <<>> THEN [validated |-> validated, errors |-> errors]
    ELSE LET param_name == Head(params)[1]
             value == Head(params)[2]
             rest == Tail(params)
         IN  IF param_name \in unknown_params
             THEN ValidateEach(rest, schema, unknown_params, validated, errors)
             ELSE LET param_schema == DictGet(schema, param_name)
                  IN  IF ~IsInstance(value, param_schema.types)
                      THEN ValidateEach(rest, schema, unknown_params, validated,
                                        Append(errors, [kind |-> "type", keys |-> {param_name}]))
                      ELSE IF value.t = "int" /\ param_schema.min.has /\ value.n < param_schema.min.n
                      THEN ValidateEach(rest, schema, unknown_params, validated,
                                        Append(errors, [kind |-> "min", keys |-> {param_name}]))
                      ELSE IF value.t = "int" /\ param_schema.max.has /\ value.n > param_schema.max.n
                      THEN ValidateEach(rest, schema, unknown_params, validated,
                                        Append(errors, [kind |-> "max", keys |-> {param_name}]))
                      ELSE ValidateEach(rest, schema, unknown_params,
                                        DictSet(validated, param_name, value), errors)

\* the mutant: without strict nothing is checked and every key is kept
ValidateParamsLenient(schema, params, strict) ==
    LET known_params == DictKeys(schema)
        provided_params == DictKeys(params)
        unknown_params == provided_params \ known_params
        errors0 == IF unknown_params # {} /\ strict
                   THEN <<[kind |-> "unknown", keys |-> unknown_params]>>
                   ELSE <<>>
        r == ValidateEach(params, schema, unknown_params, <<>>, errors0)
    IN  IF strict THEN [ok |-> r.errors = <<>>, params |-> r.validated, errors |-> r.errors]
        ELSE [ok |-> TRUE, params |-> params, errors |-> <<>>]

\* electronics.validate_params: [ok, params, errors]
validate_params(schema, params, strict) ==
    LET known_params == DictKeys(schema)
        provided_params == DictKeys(params)
        unknown_params == provided_params \ known_params
        errors0 == IF unknown_params # {} /\ strict
                   THEN <<[kind |-> "unknown", keys |-> unknown_params]>>
                   ELSE <<>>
        r == ValidateEach(params, schema, unknown_params, <<>>, errors0)
    IN  [ok |-> r.errors = <<>>, params |-> r.validated, errors |-> r.errors]

\* the items of d whose value is not None, as "k=v" strings (all model values are not None)
ParamStr(d) ==
    Join([i \in 1..Len(d) |-> d[i][1] \o <<"=">> \o Str(d[i][2])], <<"_">>)

\* the mutant: the schema validation runs before the required-parameter check
ElectronicsGetComponentValidateFirst(src, name, strict, params) ==
    IF name \notin DictKeys(src.catalog)
    THEN Raise("KeyError", src.name, <<>>)
    ELSE LET e == DictGet(src.catalog, name)
             missing == SelectSeq(e.required, LAMBDA p : p \notin DictKeys(params))
             v == validate_params(e.schema, params, strict)
         IN  IF ~v.ok
             THEN Raise("ParameterValidationError", src.name, v.errors)
             ELSE IF missing # <<>>
             THEN Raise("ValueError", src.name, missing)
             ELSE Return(src.name,
                         ComponentSpec(name, src.name, e.category,
                                       DictUpdate(e.defaults, v.params)))

\* the mutant: the defaults win over the provided parameters
ElectronicsGetComponentDefaultsWin(src, name, strict, params) ==
    IF name \notin DictKeys(src.catalog)
    THEN Raise("KeyError", src.name, <<>>)
    ELSE LET e == DictGet(src.catalog, name)
             missing == SelectSeq(e.required, LAMBDA p : p \notin DictKeys(params))
             v == validate_params(e.schema, params, strict)
         IN  IF missing # <<>>
             THEN Raise("ValueError", src.name, missing)
             ELSE IF ~v.ok
             THEN Raise("ParameterValidationError", src.name, v.errors)
             ELSE Return(src.name,
                         ComponentSpec(name, src.name, e.category,
                                       DictUpdate(v.params, e.defaults)))

\* ElectronicsSource.get_component(name, strict, **params)
ElectronicsGetComponent(src, name, strict, params) ==
    IF name \notin DictKeys(src.catalog)
    THEN Raise("KeyError", src.name, <<>>)
    ELSE LET e == DictGet(src.catalog, name)
             missing == SelectSeq(e.required, LAMBDA p : p \notin DictKeys(params))
         IN  IF missing # <<>>
             THEN Raise("ValueError", src.name, missing)
             ELSE LET v == validate_params(e.schema, params, strict)
                  IN  IF ~v.ok
                      THEN Raise("ParameterValidationError", src.name, v.errors)
                      ELSE LET final_params == DictUpdate(e.defaults, v.params)
                               param_str == ParamStr(SortedItems(v.params))
                               instance_name == IF param_str # <<>>
                                                THEN name \o <<"_">> \o param_str
                                                ELSE name
                           IN  Return(src.name,
                                      ComponentSpec(instance_name, src.name, e.category, final_params))

\* CustomSource.get_component(name, **override_params)
CustomGetComponent(src, name, override_params) ==
    IF name \notin DictKeys(src.catalog)
    THEN Raise("KeyError", src.name, <<>>)
    ELSE LET data == DictGet(src.catalog, name)
             params == DictUpdate(data.defaults, override_params)
         IN  Return(src.name, ComponentSpec(name, src.name, data.category, params))

\* source.get_component(name, **params), dispatched on the source's class
get_component(src, name, params) ==
    IF src.kind = "electronics"
    THEN ElectronicsGetComponent(src, name, TRUE, params)
    ELSE CustomGetComponent(src, name, params)

\* source.list_components(): the catalog specs in catalog order; an electronics
\* listing carries the parameter declarations, a custom listing the args
list_components(src) ==
    [i \in 1..Len(src.catalog) |->
        LET name == src.catalog[i][1]
            e == src.catalog[i][2]
        IN  ComponentSpec(name, src.name, e.category,
                          IF src.kind = "electronics"
                          THEN [required |-> e.required, defaults |-> e.defaults]
                          ELSE e.defaults)]

(***************************************************************************)
(* The sources, names and parameters the behaviours draw from              *)
(***************************************************************************)
IntSchema ==
    [types |-> {"int"}, min |-> [has |-> TRUE, n |-> 1], max |-> [has |-> TRUE, n |-> 2]]

\* a catalog entry that requires the parameter k, an int between 1 and 2
RequiresK ==
    CatalogEntry(<<"c">>, <<(<<"k">>)>>, <<>>, << <<(<<"k">>), IntSchema>> >>)

\* a generator table with the component "a" and no declared args
SourceS ==
    [name |-> <<"s">>, kind |-> "custom",
     catalog |-> << <<(<<"a">>), CatalogEntry(<<"c">>, <<>>, <<>>, <<>>)>> >>]

\* a schema-checked catalog under the same source name: "a" requires k
SourceS2 ==
    [name |-> <<"s">>, kind |-> "electronics",
     catalog |-> << <<(<<"a">>), RequiresK>> >>]

\* a schema-checked catalog: "a" requires k
SourceT ==
    [name |-> <<"t">>, kind |-> "electronics",
     catalog |-> << <<(<<"a">>), RequiresK>> >>]

\* a catalog under the same source name that has no "a"
SourceT2 ==
    [name |-> <<"t">>, kind |-> "electronics",
     catalog |-> << <<(<<"b">>), RequiresK>> >>]

SourcePool == {SourceS, SourceS2, SourceT, SourceT2}

\* a schema for the parameters k and m, ints between 1 and 2
SchemaKM == << <<(<<"k">>), IntSchema>>, <<(<<"m">>), IntSchema>> >>

\* the defaults k = 1, m = 2
DefaultsKM == << <<(<<"k">>), IntV(1)>>, <<(<<"m">>), IntV(2)>> >>

\* a schema-checked catalog: "p" requires k and m, "q" has defaults for both
SourceE ==
    [name |-> <<"e">>, kind |-> "electronics",
     catalog |-> << <<(<<"p">>), CatalogEntry(<<"c">>, <<(<<"k">>), (<<"m">>)>>, <<>>, SchemaKM)>>,
                    <<(<<"q">>), CatalogEntry(<<"c">>, <<>>, DefaultsKM, SchemaKM)>> >>]

\* a generator table: "q" has the args k = 1, m = 2
SourceC ==
    [name |-> <<"c">>, kind |-> "custom",
     catalog |-> << <<(<<"q">>), CatalogEntry(<<"c">>, <<>>, DefaultsKM, <<>>)>> >>]

SourceNames == {src.name : src \in SourcePool}

RequestNames == { <<"a">>, <<"t", "/", "c", "/", "a">> }

CacheNames == { <<"a">> }

RequestParams ==
    { <<>>,
      << <<(<<"k">>), IntV(1)>> >>,
      << <<(<<"k">>), IntV(3)>> >> }

(***************************************************************************)
(* State                                                                   *)
(***************************************************************************)
VARIABLES
    sources,          \* ComponentRegistry._sources: the sources in registration order
    cache,            \* ComponentRegistry._cache: <<key, component>> pairs, oldest first
    cache_max_size,   \* ComponentRegistry._cache_max_size
    cache_hits,       \* ComponentRegistry._cache_hits
    cache_misses,     \* ComponentRegistry._cache_misses
    next_id,          \* identity of the next Component object constructed
    gets,             \* history: [cached, bypass] numbers of get calls made
    uses,             \* history: the keys inserted or hit since the last clear, newest first
    last,             \* history: the call that was made last and what it returned or raised
    heap,             \* the Component objects: id -> [kind, wrapped, geometry, spec]
    next_geom,        \* identity of the next geometry object built
    builds,           \* history: id -> number of build() invocations on the object
    returned,         \* history: id -> the geometry objects its accesses returned
    accesses,         \* history: id -> number of geometry accesses begun on the object
    arg,              \* the arguments a caller holds: [name, params], or a geometry
    result            \* what the caller computed from arg: [done, key] or [done, report]

registryVars == <<sources, cache, cache_max_size, cache_hits, cache_misses, next_id,
                  gets, uses, last>>
componentVars == <<heap, next_geom, builds, returned, accesses>>
callerVars == <<arg, result>>
vars == <<sources, cache, cache_max_size, cache_hits, cache_misses, next_id,
          gets, uses, last, heap, next_geom, builds, returned, accesses, arg, result>>

NoCall == [op |-> "none", hit |-> FALSE, status |-> "none", source |-> <<>>, comp |-> 0,
           called |-> <<>>, value |-> 0]

CacheKeys(c) == {c[i][1] : i \in 1..Len(c)}

CacheGet(c, key) == c[CHOOSE i \in 1..Len(c) : c[i][1] = key][2]

\* the mutant: the entry stays where it is
MoveToEndNoop(c, key) == c

\* OrderedDict.move_to_end(key)
MoveToEnd(c, key) ==
    Append(SelectSeq(c, LAMBDA e : e[1] # key), <<key, CacheGet(c, key)>>)

\* OrderedDict.__setitem__: an existing key keeps its position
CacheSet(c, key, comp) ==
    IF key \in CacheKeys(c)
    THEN [i \in 1..Len(c) |-> IF c[i][1] = key THEN <<key, comp>> ELSE c[i]]
    ELSE Append(c, <<key, comp>>)

RECURSIVE Evict(_, _)
\* while len(cache) > max_size: cache.popitem(last=False)
Evict(c, max_size) ==
    IF Len(c) > max_size THEN Evict(Tail(c), max_size) ELSE c

\* ComponentRegistry.cache_stats()
cache_stats ==
    [hits |-> cache_hits, misses |-> cache_misses, size |-> Len(cache),
     max_size |-> cache_max_size]

SourceIndex(srcs, name) == CHOOSE i \in 1..Len(srcs) : srcs[i].name = name

RegisteredNames(srcs) == {srcs[i].name : i \in 1..Len(srcs)}

(***************************************************************************)
(* ComponentRegistry._get_uncached and get_spec                            *)
(***************************************************************************)
NoError == [status |-> "none", source |-> <<>>, detail |-> <<>>, spec |-> <<>>]

\* a source's result together with the get_component calls made so far
WithCalls(r, called) ==
    [status |-> r.status, source |-> r.source, detail |-> r.detail, spec |-> r.spec,
     called |-> called]

RECURSIVE ShortNameLoopStopAtValueError(_, _, _, _, _, _)
\* the mutant: the first ValueError of a source ends the search
ShortNameLoopStopAtValueError(srcs, i, full_name, params, last_value_error, called) ==
    IF i > Len(srcs)
    THEN WithCalls(Raise("KeyError", <<>>, <<>>), called)
    ELSE LET r == get_component(srcs[i], full_name, params)
             called1 == Append(called, <<srcs[i].name, full_name>>)
         IN  IF r.status = "KeyError"
             THEN ShortNameLoopStopAtValueError(srcs, i + 1, full_name, params,
                                                last_value_error, called1)
             ELSE WithCalls(r, called1)

RECURSIVE ShortNameLoopForgetError(_, _, _, _, _, _)
\* the mutant: the ValueError of a source is not remembered
ShortNameLoopForgetError(srcs, i, full_name, params, last_value_error, called) ==
    IF i > Len(srcs)
    THEN WithCalls(Raise("KeyError", <<>>, <<>>), called)
    ELSE LET r == get_component(srcs[i], full_name, params)
             called1 == Append(called, <<srcs[i].name, full_name>>)
         IN  IF r.status = "ok" \/ r.status = "ParameterValidationError"
             THEN WithCalls(r, called1)
             ELSE ShortNameLoopForgetError(srcs, i + 1, full_name, params,
                                           last_value_error, called1)

RECURSIVE ShortNameLoopFirstError(_, _, _, _, _, _)
\* the mutant: the first ValueError is kept, a later one does not replace it
ShortNameLoopFirstError(srcs, i, full_name, params, last_value_error, called) ==
    IF i > Len(srcs)
    THEN IF last_value_error.status # "none"
         THEN WithCalls(last_value_error, called)
         ELSE WithCalls(Raise("KeyError", <<>>, <<>>), called)
    ELSE LET r == get_component(srcs[i], full_name, params)
             called1 == Append(called, <<srcs[i].name, full_name>>)
         IN  IF r.status = "ok" THEN WithCalls(r, called1)
             ELSE IF r.status = "KeyError"
             THEN ShortNameLoopFirstError(srcs, i + 1, full_name, params, last_value_error,
                                          called1)
             ELSE IF r.status = "ParameterValidationError" THEN WithCalls(r, called1)
             ELSE ShortNameLoopFirstError(srcs, i + 1, full_name, params,
                                          IF last_value_error.status # "none"
                                          THEN last_value_error ELSE r,
                                          called1)

RECURSIVE ShortNameLoopReversed(_, _, _, _, _, _)
\* the mutant: the sources are tried from the last registered to the first
ShortNameLoopReversed(srcs, i, full_name, params, last_value_error, called) ==
    IF i > Len(srcs)
    THEN IF last_value_error.status # "none"
         THEN WithCalls(last_value_error, called)
         ELSE WithCalls(Raise("KeyError", <<>>, <<>>), called)
    ELSE LET src == srcs[Len(srcs) + 1 - i]
             r == get_component(src, full_name, params)
             called1 == Append(called, <<src.name, full_name>>)
         IN  IF r.status = "ok" THEN WithCalls(r, called1)
             ELSE IF r.status = "KeyError"
             THEN ShortNameLoopReversed(srcs, i + 1, full_name, params, last_value_error,
                                        called1)
             ELSE IF r.status = "ParameterValidationError" THEN WithCalls(r, called1)
             ELSE ShortNameLoopReversed(srcs, i + 1, full_name, params, r, called1)

RECURSIVE ShortNameLoop(_, _, _, _, _, _)
\* "for source in self._sources.values()" of _get_uncached and what follows it
ShortNameLoop(srcs, i, full_name, params, last_value_error, called) ==
    IF i > Len(srcs)
    THEN IF last_value_error.status # "none"
         THEN WithCalls(last_value_error, called)
         ELSE WithCalls(Raise("KeyError", <<>>, <<>>), called)
    ELSE LET r == get_component(srcs[i], full_name, params)
             called1 == Append(called, <<srcs[i].name, full_name>>)
         IN  IF r.status = "ok" THEN WithCalls(r, called1)
             ELSE IF r.status = "KeyError"
             THEN ShortNameLoop(srcs, i + 1, full_name, params, last_value_error, called1)
             ELSE IF r.status = "ParameterValidationError" THEN WithCalls(r, called1)
             ELSE ShortNameLoop(srcs, i + 1, full_name, params, r, called1)

\* the mutant: a fully-qualified name is resolved like a short name
GetUncachedNoDirect(srcs, full_name, params) ==
    ShortNameLoop(srcs, 1, full_name, params, NoError, <<>>)

_get_uncached(srcs, full_name, params) ==
    LET parts == Split(full_name, "/")
        source_name == parts[1]
        component_name == parts[Len(parts)]
    IN  IF Len(parts) >= 3 /\ source_name \in RegisteredNames(srcs)
        THEN WithCalls(get_component(srcs[SourceIndex(srcs, source_name)],
                                     component_name, params),
                       << <<source_name, component_name>> >>)
        ELSE ShortNameLoop(srcs, 1, full_name, params, NoError, <<>>)

\* the first spec of a listing whose name is `name`: [found, source]
FindInListing(src, name) ==
    LET specs == list_components(src)
        hits == {i \in 1..Len(specs) : specs[i].name = name}
    IN  IF hits = {} THEN [found |-> FALSE, source |-> <<>>, name |-> <<>>]
        ELSE LET i == CHOOSE j \in hits : \A h \in hits : j <= h
             IN  [found |-> TRUE, source |-> specs[i].source, name |-> specs[i].name]

RECURSIVE SpecShortNameLoopLast(_, _, _)
\* the mutant: the last listing that has the name wins
SpecShortNameLoopLast(srcs, i, name) ==
    IF i > Len(srcs) THEN [status |-> "KeyError", source |-> <<>>, name |-> <<>>]
    ELSE LET f == FindInListing(srcs[i], name)
             rest == SpecShortNameLoopLast(srcs, i + 1, name)
         IN  IF rest.status = "ok" THEN rest
             ELSE IF f.found THEN [status |-> "ok", source |-> f.source, name |-> f.name]
             ELSE rest

RECURSIVE SpecShortNameLoop(_, _, _)
\* "for source in self._sources.values()" of get_spec and what follows it
SpecShortNameLoop(srcs, i, name) ==
    IF i > Len(srcs) THEN [status |-> "KeyError", source |-> <<>>, name |-> <<>>]
    ELSE LET f == FindInListing(srcs[i], name)
         IN  IF f.found THEN [status |-> "ok", source |-> f.source, name |-> f.name]
             ELSE SpecShortNameLoop(srcs, i + 1, name)

\* ComponentRegistry.get_spec(name): the source and name of the spec returned
get_spec(srcs, name) ==
    LET parts == Split(name, "/")
        source_name == parts[1]
        component_name == parts[Len(parts)]
        direct == IF Len(parts) >= 3 /\ source_name \in RegisteredNames(srcs)
                  THEN FindInListing(srcs[SourceIndex(srcs, source_name)], component_name)
                  ELSE [found |-> FALSE, source |-> <<>>, name |-> <<>>]
    IN  IF direct.found
        THEN [status |-> "ok", source |-> direct.source, name |-> direct.name]
        ELSE SpecShortNameLoop(srcs, 1, name)

(***************************************************************************)
(* Registry operations                                                     *)
(***************************************************************************)
\* history: `key` becomes the most recently used key
Use(u, key) == <<key>> \o SelectSeq(u, LAMBDA k : k # key)

Call(op, hit, status, source, comp, called, value) ==
    [op |-> op, hit |-> hit, status |-> status, source |-> source, comp |-> comp,
     called |-> called, value |-> value]

\* ComponentRegistry.register_source(source)
RegisterSource(src) ==
    /\ sources' = IF src.name \in RegisteredNames(sources)
                  THEN [sources EXCEPT ![SourceIndex(sources, src.name)] = src]
                  ELSE Append(sources, src)
    /\ last' = Call("register_source", FALSE, "ok", <<>>, 0, <<>>, 0)
    /\ UNCHANGED <<cache, cache_max_size, cache_hits, cache_misses, next_id, gets, uses>>
    /\ UNCHANGED componentVars
    /\ UNCHANGED callerVars

\* the mutant: removing a source also drops the cached components
UnregisterSourcePurge(name) ==
    /\ sources' = SelectSeq(sources, LAMBDA src : src.name # name)
    /\ cache' = <<>>
    /\ uses' = <<>>
    /\ last' = Call("unregister_source", FALSE, "ok", <<>>, 0, <<>>, 0)
    /\ UNCHANGED <<cache_max_size, cache_hits, cache_misses, next_id, gets>>
    /\ UNCHANGED componentVars
    /\ UNCHANGED callerVars

\* ComponentRegistry.unregister_source(name)
UnregisterSource(name) ==
    /\ sources' = SelectSeq(sources, LAMBDA src : src.name # name)
    /\ last' = Call("unregister_source", FALSE, "ok", <<>>, 0, <<>>, 0)
    /\ UNCHANGED <<cache, cache_max_size, cache_hits, cache_misses, next_id, gets, uses>>
    /\ UNCHANGED componentVars
    /\ UNCHANGED callerVars

\* the branch "if use_cache and cache_key in self._cache" of get
GetHit(full_name, params, cache_key) ==
    /\ cache_hits' = cache_hits + 1
    /\ cache' = MoveToEnd(cache, cache_key)
    /\ uses' = Use(uses, cache_key)
    /\ last' = Call("get", TRUE, "ok", CacheGet(cache, cache_key).spec.source,
                    CacheGet(cache, cache_key).id, <<>>, 0)
    /\ UNCHANGED <<cache_misses, next_id>>

\* the mutant: the new entry is stored without evicting
StoreNoEvict(c, cache_key, component, max_size) ==
    MoveToEnd(CacheSet(c, cache_key, component), cache_key)

\* the block "if use_cache:" of get: store, move to the end, evict
Store(c, cache_key, component, max_size) ==
    Evict(MoveToEnd(CacheSet(c, cache_key, component), cache_key), max_size)

\* the mutant: the component is stored whatever use_cache says
GetMissAlwaysStore(full_name, use_cache, params, cache_key) ==
    LET r == _get_uncached(sources, full_name, params)
        component == [id |-> next_id, spec |-> r.spec]
    IN  /\ cache_misses' = cache_misses + 1
        /\ cache_hits' = cache_hits
        /\ IF r.status = "ok"
           THEN /\ next_id' = next_id + 1
                /\ cache' = Store(cache, cache_key, component, cache_max_size)
                /\ uses' = Use(uses, cache_key)
                /\ last' = Call("get", FALSE, "ok", r.source, next_id, r.called, 0)
           ELSE /\ UNCHANGED <<next_id, cache, uses>>
                /\ last' = Call("get", FALSE, r.status, r.source, 0, r.called, 0)

\* the rest of get: count a miss, resolve, store
GetMiss(full_name, use_cache, params, cache_key) ==
    LET r == _get_uncached(sources, full_name, params)
        component == [id |-> next_id, spec |-> r.spec]
    IN  /\ cache_misses' = cache_misses + 1   \* with any use_cache
        /\ cache_hits' = cache_hits
        /\ IF r.status = "ok"
           THEN /\ next_id' = next_id + 1
                /\ cache' = IF use_cache
                            THEN Store(cache, cache_key, component, cache_max_size)
                            ELSE cache
                /\ uses' = IF use_cache THEN Use(uses, cache_key) ELSE uses
                /\ last' = Call("get", FALSE, "ok", r.source, next_id, r.called, 0)
           ELSE /\ UNCHANGED <<next_id, cache, uses>>
                /\ last' = Call("get", FALSE, r.status, r.source, 0, r.called, 0)

\* the mutant: the cache is never consulted
IsHitNever(use_cache, cache_key, c) == FALSE

\* the test "use_cache and cache_key in self._cache" of get
IsHit(use_cache, cache_key, c) == use_cache /\ cache_key \in CacheKeys(c)

\* ComponentRegistry.get(full_name, use_cache, **params)
Get(full_name, use_cache, params) ==
    LET cache_key == _make_cache_key(full_name, params)
    IN  /\ gets.cached + gets.bypass < MaxGets
        /\ gets' = IF use_cache THEN [gets EXCEPT !.cached = @ + 1]
                                ELSE [gets EXCEPT !.bypass = @ + 1]
        /\ IF IsHit(use_cache, cache_key, cache)
           THEN GetHit(full_name, params, cache_key)
           ELSE GetMiss(full_name, use_cache, params, cache_key)
        /\ UNCHANGED <<sources, cache_max_size>>
        /\ UNCHANGED componentVars
        /\ UNCHANGED callerVars

\* the mutant: clearing the cache also resets the statistics
ClearCacheResetStats ==
    /\ cache' = <<>>
    /\ uses' = <<>>
    /\ cache_hits' = 0
    /\ cache_misses' = 0
    /\ last' = Call("clear_cache", FALSE, "ok", <<>>, 0, <<>>, Len(cache))
    /\ UNCHANGED <<sources, cache_max_size, next_id, gets>>
    /\ UNCHANGED componentVars
    /\ UNCHANGED callerVars

\* ComponentRegistry.clear_cache()
ClearCache ==
    /\ cache' = <<>>
    /\ uses' = <<>>
    /\ last' = Call("clear_cache", FALSE, "ok", <<>>, 0, <<>>, Len(cache))
    /\ UNCHANGED <<sources, cache_max_size, cache_hits, cache_misses, next_id, gets>>
    /\ UNCHANGED componentVars
    /\ UNCHANGED callerVars

\* ComponentRegistry.get_spec(name)
GetSpec(name) ==
    LET r == get_spec(sources, name)
    IN  /\ last' = Call("get_spec", FALSE, r.status, r.source, 0, <<>>, 0)
        /\ UNCHANGED <<sources, cache, cache_max_size, cache_hits, cache_misses, next_id,
                       gets, uses>>
        /\ UNCHANGED componentVars
        /\ UNCHANGED callerVars

(***************************************************************************)
(* validate_geometry                                                       *)
(*                                                                         *)
(* A geometry is what the kernel answers when validate_geometry asks:      *)
(* [vals, solids, faces, bbox, occ].  vals is "empty", "ok" or "raise"     *)
(* (vals() or val() raises, as on a None geometry); solids and faces are   *)
(* the counts, Raises when Solids() or Faces() raises; bbox is the         *)
(* (xlen, ylen, zlen) of the bounding box in hundredths of a millimetre,   *)
(* <<>> when BoundingBox() raises; occ is what the BRepCheck import and    *)
(* analyzer do: "import_error", "raise", "valid" or "invalid".             *)
(***************************************************************************)
\* validation thresholds, in hundredths of a millimetre
MAX_DIMENSION == 200000
MIN_DIMENSION == 1

Raises == 0 - 1

None == <<>>

ValidationIssue(severity, code) == [severity |-> severity, code |-> code]

ValidationResult(is_valid, issues, bbox_size, solid_count, face_count) ==
    [is_valid |-> is_valid, issues |-> issues, bbox_size |-> bbox_size,
     solid_count |-> solid_count, face_count |-> face_count]

\* any(i.severity == IssueSeverity.ERROR for i in issues)
has_errors(issues) == \E i \in 1..Len(issues) : issues[i].severity = "error"

\* check 6 of validate_geometry: the issues the kernel validity check adds
OccCheck(geometry) ==
    IF geometry.occ = "invalid" THEN << ValidationIssue("error", "INVALID_SHAPE") >>
    ELSE IF geometry.occ = "raise"
    THEN << ValidationIssue("warning", "OCC_CHECK_FAILED") >>
    ELSE <<>>

\* the mutant: every issue counts against validity
IsValidNoIssues(issues) == issues = <<>>

\* "is_valid = not any(i.severity == IssueSeverity.ERROR for i in issues)"
IsValid(issues) == ~has_errors(issues)

\* checks 2 to 6 of validate_geometry and its final return
RunChecks(geometry, max_dimension, min_dimension) ==
    LET solid_count == IF geometry.solids = Raises THEN 0 ELSE geometry.solids
        issues2 == IF geometry.solids = 0
                   THEN << ValidationIssue("error", "NO_SOLIDS") >> ELSE <<>>
        face_count == IF geometry.faces = Raises THEN 0 ELSE geometry.faces
        issues3 == IF geometry.faces = 0 /\ solid_count > 0
                   THEN Append(issues2, ValidationIssue("warning", "NO_FACES"))
                   ELSE issues2
        issues4 == IF solid_count > 1
                   THEN Append(issues3, ValidationIssue("info", "MULTIPLE_SOLIDS"))
                   ELSE issues3
        bbox_size == geometry.bbox
        issues5 ==
            IF geometry.bbox = None
            THEN Append(issues4, ValidationIssue("warning", "BBOX_FAILED"))
            ELSE issues4
                 \o (IF (CHOOSE m \in {bbox_size[1], bbox_size[2], bbox_size[3]} :
                             \A i \in 1..3 : bbox_size[i] <= m) > max_dimension
                     THEN << ValidationIssue("warning", "OVERSIZED") >> ELSE <<>>)
                 \o (IF (CHOOSE m \in {bbox_size[1], bbox_size[2], bbox_size[3]} :
                             \A i \in 1..3 : m <= bbox_size[i]) < min_dimension
                     THEN << ValidationIssue("warning", "UNDERSIZED") >> ELSE <<>>)
        issues == issues5 \o OccCheck(geometry)
    IN  ValidationResult(IsValid(issues), issues, bbox_size, solid_count, face_count)

\* the mutant: an empty geometry is reported and the checks go on
ValidateGeometryNoShortCircuit(geometry, max_dimension, min_dimension) ==
    IF geometry.vals = "raise"
    THEN ValidationResult(FALSE, << ValidationIssue("error", "GEOMETRY_ACCESS_FAILED") >>,
                          None, 0, 0)
    ELSE LET r == RunChecks(geometry, max_dimension, min_dimension)
         IN  IF geometry.vals = "empty"
             THEN ValidationResult(FALSE,
                                   << ValidationIssue("error", "EMPTY_GEOMETRY") >> \o r.issues,
                                   r.bbox_size, r.solid_count, r.face_count)
             ELSE r

\* validate_geometry(geometry, name, max_dimension, min_dimension)
validate_geometry(geometry, max_dimension, min_dimension) ==
    IF geometry.vals = "raise"
    THEN ValidationResult(FALSE, << ValidationIssue("error", "GEOMETRY_ACCESS_FAILED") >>,
                          None, 0, 0)
    ELSE IF geometry.vals = "empty"
    THEN ValidationResult(FALSE, << ValidationIssue("error", "EMPTY_GEOMETRY") >>,
                          None, 0, 0)
    ELSE RunChecks(geometry, max_dimension, min_dimension)

\* the geometries validate_geometry is given: every combination of answers for
\* a geometry that has shapes, fewer for one that is empty or cannot be read;
\* the bounding boxes are within the thresholds, at both thresholds, too
\* large, too small, both
Geometries ==
    LET BoundingBoxes ==
            { <<1000, 2000, 500>>, <<MAX_DIMENSION, MIN_DIMENSION, 5>>,
              <<MAX_DIMENSION + 1, 1000, 1000>>, <<1000, 1000, 0>>,
              <<MAX_DIMENSION + 1, 0, 5>> }
    IN
    {g \in [vals : {"empty", "ok", "raise"}, solids : {Raises, 0, 1, 2},
            faces : {Raises, 0, 1}, bbox : BoundingBoxes \cup {None},
            occ : {"import_error", "raise", "valid", "invalid"}] :
        \/ g.vals = "ok"
        \/ /\ g.faces = 1
           /\ g.bbox \in {None, <<1000, 2000, 500>>}
           /\ g.occ \in {"valid", "invalid"}}

\* what the kernel answers for the None a build() returned
NoneGeometry ==
    [vals |-> "raise", solids |-> Raises, faces |-> Raises, bbox |-> None, occ |-> "raise"]

\* a sound box and an empty workplane
ComponentGeometries ==
    { [vals |-> "ok", solids |-> 1, faces |-> 1, bbox |-> <<1000, 2000, 500>>,
       occ |-> "valid"],
      [vals |-> "empty", solids |-> 0, faces |-> 0, bbox |-> None, occ |-> "valid"] }

(***************************************************************************)
(* Component objects                                                       *)
(*                                                                         *)
(* A Component object is [kind, wrapped, geometry, spec]: kind is "base"   *)
(* (built by a source's generator or class), "translated" or "rotated" (a  *)
(* decorator around `wrapped`); geometry is the identity of the object in  *)
(* _geometry, 0 for None; spec is the identity of the ComponentSpec object *)
(* in _spec, each base component being given its own.                      *)
(***************************************************************************)

Allocated == {c \in 1..MaxComponents : heap[c].kind # "free"}

RECURSIVE SumUpTo(_, _)
SumUpTo(f, n) == IF n = 0 THEN 0 ELSE f[n] + SumUpTo(f, n - 1)

TotalAccesses == SumUpTo(accesses, MaxComponents)

ComponentState == [heap |-> heap, next_geom |-> next_geom, builds |-> builds,
                   returned |-> returned, accesses |-> accesses]

\* what build() does in the call: return a fresh geometry, raise, or return None
BuildOutcomes == {"ok", "raise", "none"}

RECURSIVE GeometryAlwaysBuild(_, _, _)
RECURSIVE GeometryKeepFailure(_, _, _)
RECURSIVE Geometry(_, _, _)
RECURSIVE Build(_, _, _)

\* the variant's build(): a base component runs its generator, a decorator
\* transforms the wrapped component's geometry into a new object
Build(st, c, outcome) ==
    LET st1 == [st EXCEPT !.builds[c] = @ + 1]
    IN  IF st1.heap[c].kind = "base"
        THEN IF outcome = "raise" THEN [st |-> st1, status |-> "raise", value |-> 0]
             ELSE IF outcome = "none" THEN [st |-> st1, status |-> "ok", value |-> 0]
             ELSE [st |-> [st1 EXCEPT !.next_geom = @ + 1], status |-> "ok",
                   value |-> st1.next_geom]
        ELSE LET g == Geometry(st1, st1.heap[c].wrapped, outcome)
             IN  IF g.status = "raise" \/ g.value = 0
                 THEN [st |-> g.st, status |-> "raise", value |-> 0]
                 ELSE [st |-> [g.st EXCEPT !.next_geom = @ + 1], status |-> "ok",
                       value |-> g.st.next_geom]

\* the mutant: a build() that raised is remembered as the geometry
GeometryKeepFailure(st, c, outcome) ==
    LET st1 == [st EXCEPT !.accesses[c] = @ + 1]
    IN  IF st1.heap[c].geometry = 0
        THEN LET b == Build(st1, c, outcome)
             IN  IF b.status = "raise"
                 THEN [st |-> [b.st EXCEPT !.heap[c].geometry = b.st.next_geom,
                                           !.next_geom = @ + 1],
                       status |-> "raise", value |-> 0]
                 ELSE [st |-> [b.st EXCEPT !.heap[c].geometry = b.value,
                                           !.returned[c] = @ \cup {b.value}],
                       status |-> "ok", value |-> b.value]
        ELSE [st |-> [st1 EXCEPT !.returned[c] = @ \cup {st1.heap[c].geometry}],
              status |-> "ok", value |-> st1.heap[c].geometry]

\* the mutant: the geometry is rebuilt on every access
GeometryAlwaysBuild(st, c, outcome) ==
    LET st1 == [st EXCEPT !.accesses[c] = @ + 1]
        b == Build(st1, c, outcome)
    IN  IF b.status = "raise" THEN [st |-> b.st, status |-> "raise", value |-> 0]
        ELSE [st |-> [b.st EXCEPT !.heap[c].geometry = b.value,
                                  !.returned[c] = @ \cup {b.value}],
              status |-> "ok", value |-> b.value]

\* the property Component.geometry
Geometry(st, c, outcome) ==
    LET st1 == [st EXCEPT !.accesses[c] = @ + 1]
    IN  IF st1.heap[c].geometry = 0
        THEN LET b == Build(st1, c, outcome)
             IN  IF b.status = "raise" THEN [st |-> b.st, status |-> "raise", value |-> 0]
                 ELSE [st |-> [b.st EXCEPT !.heap[c].geometry = b.value,
                                           !.returned[c] = @ \cup {b.value}],
                       status |-> "ok", value |-> b.value]
        ELSE [st |-> [st1 EXCEPT !.returned[c] = @ \cup {st1.heap[c].geometry}],
              status |-> "ok", value |-> st1.heap[c].geometry]

SetComponentState(st) ==
    /\ heap' = st.heap
    /\ next_geom' = st.next_geom
    /\ builds' = st.builds
    /\ returned' = st.returned
    /\ accesses' = st.accesses

\* Component.__init__(spec), run by a source's get_component
NewComponent ==
    /\ Cardinality(Allocated) < MaxComponents
    /\ heap' = [heap EXCEPT ![Cardinality(Allocated) + 1] =
                                [kind |-> "base", wrapped |-> 0, geometry |-> 0,
                                 spec |-> Cardinality(Allocated) + 1]]
    /\ last' = Call("new", FALSE, "ok", <<>>, Cardinality(Allocated) + 1, <<>>, 0)
    /\ UNCHANGED <<next_geom, builds, returned, accesses>>
    /\ UNCHANGED <<sources, cache, cache_max_size, cache_hits, cache_misses, next_id, gets, uses>>
    /\ UNCHANGED callerVars

\* the mutant: the translated copy takes the geometry away from self
TranslateMoving(c) ==
    /\ c \in Allocated
    /\ Cardinality(Allocated) < MaxComponents
    /\ heap' = [heap EXCEPT ![Cardinality(Allocated) + 1] =
                                [kind |-> "translated", wrapped |-> c,
                                 geometry |-> heap[c].geometry, spec |-> heap[c].spec],
                            ![c].geometry = 0]
    /\ last' = Call("translate", FALSE, "ok", <<>>, Cardinality(Allocated) + 1, <<>>, 0)
    /\ UNCHANGED <<next_geom, builds, returned, accesses>>
    /\ UNCHANGED <<sources, cache, cache_max_size, cache_hits, cache_misses, next_id, gets, uses>>
    /\ UNCHANGED callerVars

\* Component.translate(x, y, z)
Translate(c) ==
    /\ c \in Allocated
    /\ Cardinality(Allocated) < MaxComponents
    /\ heap' = [heap EXCEPT ![Cardinality(Allocated) + 1] =
                                [kind |-> "translated", wrapped |-> c, geometry |-> 0,
                                 spec |-> heap[c].spec]]
    /\ last' = Call("translate", FALSE, "ok", <<>>, Cardinality(Allocated) + 1, <<>>, 0)
    /\ UNCHANGED <<next_geom, builds, returned, accesses>>
    /\ UNCHANGED <<sources, cache, cache_max_size, cache_hits, cache_misses, next_id, gets, uses>>
    /\ UNCHANGED callerVars

\* Component.rotate(axis, angle)
Rotate(c) ==
    /\ c \in Allocated
    /\ Cardinality(Allocated) < MaxComponents
    /\ heap' = [heap EXCEPT ![Cardinality(Allocated) + 1] =
                                [kind |-> "rotated", wrapped |-> c, geometry |-> 0,
                                 spec |-> heap[c].spec]]
    /\ last' = Call("rotate", FALSE, "ok", <<>>, Cardinality(Allocated) + 1, <<>>, 0)
    /\ UNCHANGED <<next_geom, builds, returned, accesses>>
    /\ UNCHANGED <<sources, cache, cache_max_size, cache_hits, cache_misses, next_id, gets, uses>>
    /\ UNCHANGED callerVars

\* a caller reads component.geometry; a raising build() propagates to the caller
AccessGeometry(c, outcome) ==
    /\ c \in Allocated
    /\ TotalAccesses < MaxAccesses
    /\ LET g == Geometry(ComponentState, c, outcome)
       IN  /\ SetComponentState(g.st)
           /\ last' = Call("geometry", FALSE, g.status, <<>>, c, <<>>, g.value)
    /\ UNCHANGED <<sources, cache, cache_max_size, cache_hits, cache_misses, next_id, gets, uses>>
    /\ UNCHANGED callerVars

\* the result of the except branch of Component.validate
BuildFailed ==
    ValidationResult(FALSE, << ValidationIssue("error", "BUILD_FAILED") >>, None, 0, 0)

\* the mutant: the exception of build() is not told from a geometry that
\* cannot be read
ValidateNoBuildFailed(g, geometry) ==
    validate_geometry(IF g.status = "raise" \/ g.value = 0 THEN NoneGeometry ELSE geometry,
                      MAX_DIMENSION, MIN_DIMENSION)

\* the try/except of Component.validate: g is what the geometry access did,
\* `geometry` what the kernel answers for the object it returned
validate(g, geometry) ==
    IF g.status = "raise" THEN BuildFailed
    ELSE validate_geometry(IF g.value = 0 THEN NoneGeometry ELSE geometry,
                           MAX_DIMENSION, MIN_DIMENSION)

\* Component.validate(): the geometry access inside try, a raising build()
\* becomes the BUILD_FAILED result, a None geometry fails validate_geometry's
\* first access
Validate(c, outcome, geometry) ==
    /\ c \in Allocated
    /\ TotalAccesses < MaxAccesses
    /\ LET g == Geometry(ComponentState, c, outcome)
       IN  /\ SetComponentState(g.st)
           /\ last' = [op |-> "validate", hit |-> FALSE,
                       status |-> IF g.status = "raise" THEN "BUILD_FAILED"
                                  ELSE IF g.value = 0 THEN "GEOMETRY_ACCESS_FAILED"
                                  ELSE "checked",
                       source |-> <<>>, comp |-> c, called |-> <<>>, value |-> g.value,
                       report |-> validate(g, geometry)]
    /\ UNCHANGED <<sources, cache, cache_max_size, cache_hits, cache_misses, next_id, gets, uses>>
    /\ UNCHANGED callerVars

InitComponents ==
    /\ heap = [c \in 1..MaxComponents |-> [kind |-> "free", wrapped |-> 0, geometry |-> 0, spec |-> 0]]
    /\ next_geom = 1
    /\ builds = [c \in 1..MaxComponents |-> 0]
    /\ returned = [c \in 1..MaxComponents |-> {}]
    /\ accesses = [c \in 1..MaxComponents |-> 0]

\* ComponentRegistry.__init__(cache_size)
Init ==
    /\ sources = <<>>
    /\ cache = <<>>
    /\ cache_max_size \in 0..MaxCacheSize
    /\ cache_hits = 0
    /\ cache_misses = 0
    /\ next_id = 1
    /\ gets = [cached |-> 0, bypass |-> 0]
    /\ uses = <<>>
    /\ last = NoCall
    /\ InitComponents
    /\ arg = [name |-> <<>>, params |-> <<>>]
    /\ result = [done |-> FALSE, key |-> <<>>]

\* the registry and its cache: one requested name, long sequences of get calls
Next ==
    \/ \E src \in {SourceS, SourceS2, SourceT} : RegisterSource(src)
    \/ \E name \in SourceNames : UnregisterSource(name)
    \/ \E full_name \in CacheNames, use_cache \in BOOLEAN, params \in RequestParams :
           Get(full_name, use_cache, params)
    \/ ClearCache
    \/ \E name \in CacheNames : GetSpec(name)

Spec == Init /\ [][Next]_vars

\* name resolution: every source, short and fully-qualified names, few get calls
NextResolve ==
    \/ \E src \in SourcePool : RegisterSource(src)
    \/ \E name \in SourceNames : UnregisterSource(name)
    \/ \E full_name \in RequestNames, use_cache \in BOOLEAN, params \in RequestParams :
           /\ gets.cached + gets.bypass < MaxLookups
           /\ Get(full_name, use_cache, params)
    \/ \E name \in RequestNames : GetSpec(name)

SpecResolve == Init /\ [][NextResolve]_vars

\* the cache under requests whose names and parameters differ: a short name,
\* and a name that holds a colon as the paths of the PartCAD source do
NextIdentity ==
    \/ RegisterSource(SourceS)
    \/ \E full_name \in { <<"a">>, <<"a", ":", "k", "=", "1">> }, use_cache \in BOOLEAN,
          params \in RequestParams :
           /\ gets.cached + gets.bypass < MaxLookups
           /\ Get(full_name, use_cache, params)
    \/ ClearCache

SpecIdentity == Init /\ [][NextIdentity]_vars

\* the component objects on their own: construction, decoration, geometry accesses
NextComponent ==
    \/ NewComponent
    \/ \E c \in 1..MaxComponents : Translate(c)
    \/ \E c \in 1..MaxComponents : Rotate(c)
    \/ \E c \in 1..MaxComponents, outcome \in BuildOutcomes : AccessGeometry(c, outcome)
    \/ \E c \in 1..MaxComponents, outcome \in BuildOutcomes,
          geometry \in ComponentGeometries : Validate(c, outcome, geometry)

\* no component exists yet; the registry is not used
InitComponent == Init /\ cache_max_size = 0

SpecComponent == InitComponent /\ [][NextComponent]_vars

\* a caller holds a geometry; no component exists yet
InitValidate ==
    /\ sources = <<>>
    /\ cache = <<>>
    /\ cache_max_size = 0
    /\ cache_hits = 0
    /\ cache_misses = 0
    /\ next_id = 1
    /\ gets = [cached |-> 0, bypass |-> 0]
    /\ uses = <<>>
    /\ last = NoCall
    /\ InitComponents
    /\ arg \in Geometries
    /\ result = [done |-> FALSE, report |-> BuildFailed]

\* report = validate_geometry(geometry) with the default thresholds
ValidateGeometry ==
    /\ ~result.done
    /\ result' = [done |-> TRUE,
                  report |-> validate_geometry(arg, MAX_DIMENSION, MIN_DIMENSION)]
    /\ UNCHANGED arg
    /\ UNCHANGED registryVars
    /\ UNCHANGED componentVars

\* validate_geometry on its own and under Component.validate
NextValidate ==
    \/ ValidateGeometry
    \/ NewComponent
    \/ \E c \in 1..MaxComponents, outcome \in BuildOutcomes :
           /\ TotalAccesses < MaxValidations
           /\ Validate(c, outcome, arg)

SpecValidate == InitValidate /\ [][NextValidate]_vars

(***************************************************************************)
(* The cache key on its own: a caller holds a name and keyword parameters  *)
(* in some order, computes the key, and calls get with the parameters in   *)
(* any order.                                                              *)
(***************************************************************************)
ParamKeys == { <<"c">>, <<"k">>, <<"m">> }

\* every dict of at most MaxParams items, in every insertion order
ParamDicts ==
    {d \in UNION {[1..n -> ParamKeys \X {IntV(1), IntV(2), StrV(<<"1">>)}] : n \in 0..MaxParams} :
        \A i, j \in 1..Len(d) : i # j => d[i][1] # d[j][1]}

\* the same dict with its items supplied in every order
Reorderings(d) ==
    {[i \in 1..Len(d) |-> d[f[i]]] :
        f \in {g \in [1..Len(d) -> 1..Len(d)] :
                  \A i, j \in 1..Len(d) : i # j => g[i] # g[j]}}

InitCacheKey ==
    /\ sources = <<>>
    /\ cache = <<>>
    /\ cache_max_size = MaxCacheSize
    /\ cache_hits = 0
    /\ cache_misses = 0
    /\ next_id = 1
    /\ gets = [cached |-> 0, bypass |-> 0]
    /\ uses = <<>>
    /\ last = NoCall
    /\ InitComponents
    /\ arg \in [name : RequestNames, params : ParamDicts]
    /\ result = [done |-> FALSE, key |-> <<>>]

\* key = _make_cache_key(name, params)
ComputeKey ==
    /\ ~result.done
    /\ result' = [done |-> TRUE, key |-> _make_cache_key(arg.name, arg.params)]
    /\ UNCHANGED arg
    /\ UNCHANGED registryVars
    /\ UNCHANGED componentVars

\* registry.get(name, **params) with the caller's parameters in the order q
GetReordered(q) ==
    /\ Get(arg.name, TRUE, q)

NextCacheKey ==
    \/ ComputeKey
    \/ RegisterSource(SourceS)
    \/ \E q \in Reorderings(arg.params) : GetReordered(q)

SpecCacheKey == InitCacheKey /\ [][NextCacheKey]_vars

\* every dict of at most MaxParams items over the checked values, in every
\* insertion order
CheckedDicts ==
    {d \in UNION {[1..n -> ParamKeys \X {IntV(1), IntV(3), StrV(<<"x">>)}] : n \in 0..MaxParams} :
        \A i, j \in 1..Len(d) : i # j => d[i][1] # d[j][1]}

\* a caller holds a source, a component name, the strict flag and parameters
InitParams ==
    /\ sources = <<>>
    /\ cache = <<>>
    /\ cache_max_size = 0
    /\ cache_hits = 0
    /\ cache_misses = 0
    /\ next_id = 1
    /\ gets = [cached |-> 0, bypass |-> 0]
    /\ uses = <<>>
    /\ last = NoCall
    /\ InitComponents
    /\ arg \in [source : {SourceE, SourceC}, name : { <<"p">>, <<"q">>, <<"z">> }, strict : BOOLEAN,
                params : CheckedDicts]
    /\ result = [done |-> FALSE, op |-> "none", r |-> NoError]

\* PARAM_SCHEMAS.get(component_name, {})
SchemaOf(src, name) ==
    IF name \in DictKeys(src.catalog) THEN DictGet(src.catalog, name).schema ELSE <<>>

\* validated = validate_params(name, params, strict)
ValidateParams ==
    /\ ~result.done
    /\ arg.source.kind = "electronics"
    /\ result' = [done |-> TRUE, op |-> "validate_params",
                  r |-> validate_params(SchemaOf(arg.source, arg.name), arg.params,
                                        arg.strict)]
    /\ UNCHANGED arg
    /\ UNCHANGED registryVars
    /\ UNCHANGED componentVars

\* component = source.get_component(name, strict=strict, **params) on the
\* electronics source, source.get_component(name, **params) on the custom one
GetComponent ==
    /\ ~result.done
    /\ result' = [done |-> TRUE, op |-> "get_component",
                  r |-> IF arg.source.kind = "electronics"
                        THEN ElectronicsGetComponent(arg.source, arg.name, arg.strict,
                                                     arg.params)
                        ELSE CustomGetComponent(arg.source, arg.name, arg.params)]
    /\ UNCHANGED arg
    /\ UNCHANGED registryVars
    /\ UNCHANGED componentVars

NextParams ==
    \/ ValidateParams
    \/ GetComponent

SpecParams == InitParams /\ [][NextParams]_vars

(***************************************************************************)
(* ElectronicsComponent and AssemblyInfo                                   *)
(*                                                                         *)
(* The cq_object of a backing instance is [kind, name, color, children]:   *)
(* kind is "assembly", "workplane" or "shape"; an assembly has a name, a   *)
(* color and children [name, color], each child added with a unique name.  *)
(* A color is an RGBA tuple, None when the part has none.                  *)
(***************************************************************************)

\* the backing objects: assemblies of at most MaxParts children with unique
\* names, a workplane, and another shape
CqObjects ==
    LET Colors == { None, <<0, 1, 0, 1>> }
        PartNames == { <<"pcb">>, <<"chip">>, <<"usb">> }
        ChildLists ==
            {ch \in UNION {[1..n -> [name : PartNames, color : Colors]] : n \in 0..MaxParts} :
                \A i, j \in 1..Len(ch) : i # j => ch[i].name # ch[j].name}
    IN  [kind : {"assembly"}, name : { <<"board">> }, color : Colors, children : ChildLists]
        \cup [kind : {"workplane", "shape"}, name : { <<>> }, color : {None},
              children : { <<>> }]

\* the names asm.traverse() yields: cq.Assembly.traverse walks the children
\* bottom-up and yields the assembly itself last
Traverse(asm) ==
    Append([i \in 1..Len(asm.children) |-> asm.children[i].name], asm.name)

\* AssemblyInfo.from_assembly(asm).parts
from_assembly(asm) ==
    LET \* the inner loop: the color of the first child called `name`
        ChildColor(name) ==
            LET named == {i \in 1..Len(asm.children) : asm.children[i].name = name}
            IN  IF named = {} THEN None
                ELSE asm.children[CHOOSE i \in named : \A j \in named : i <= j].color
    IN  [i \in 1..Len(Traverse(asm)) |->
            [name |-> Traverse(asm)[i], color |-> ChildColor(Traverse(asm)[i])]]

RECURSIVE part_names(_)
\* AssemblyInfo.part_names
part_names(parts) ==
    IF parts = <<>> THEN <<>> ELSE << Head(parts).name >> \o part_names(Tail(parts))

RECURSIVE ColorMapFrom(_, _)
\* {p.name: p.color for p in parts if p.color is not None}, filled in order
ColorMapFrom(parts, map) ==
    IF parts = <<>> THEN map
    ELSE ColorMapFrom(Tail(parts),
                      IF Head(parts).color # None
                      THEN DictSet(map, Head(parts).name, Head(parts).color)
                      ELSE map)

\* ElectronicsComponent.build(): the component's fields after it
\* [built, assembly, assembly_info, geometry]; has_info tells an AssemblyInfo
\* from None, geometry is what the flattened workplane was made from
ElectronicsBuild(cq_obj) ==
    IF cq_obj.kind = "assembly"
    THEN [built |-> TRUE, assembly |-> cq_obj, has_info |-> TRUE,
          parts |-> from_assembly(cq_obj), geometry |-> "compound"]
    ELSE [built |-> TRUE, assembly |-> None, has_info |-> FALSE, parts |-> <<>>,
          geometry |-> IF cq_obj.kind = "workplane" THEN "workplane" ELSE "wrapped"]

\* an ElectronicsComponent was constructed around the backing object
InitAssembly ==
    /\ sources = <<>>
    /\ cache = <<>>
    /\ cache_max_size = 0
    /\ cache_hits = 0
    /\ cache_misses = 0
    /\ next_id = 1
    /\ gets = [cached |-> 0, bypass |-> 0]
    /\ uses = <<>>
    /\ last = NoCall
    /\ InitComponents
    /\ arg \in CqObjects
    /\ result = [built |-> FALSE, assembly |-> None, has_info |-> FALSE, parts |-> <<>>,
                 geometry |-> "none"]

\* the component after "if self._geometry is None: _ = self.geometry"
Built == IF result.built THEN result ELSE ElectronicsBuild(arg)

\* component.geometry
ElectronicsGeometry ==
    /\ result' = Built
    /\ last' = Call("geometry", FALSE, "ok", <<>>, 0, <<>>, Built.geometry)
    /\ UNCHANGED <<sources, cache, cache_max_size, cache_hits, cache_misses, next_id, gets, uses>>
    /\ UNCHANGED arg
    /\ UNCHANGED componentVars

\* component.assembly
GetAssembly ==
    /\ result' = Built
    /\ last' = Call("assembly", FALSE, "ok", <<>>, 0, <<>>, Built.assembly)
    /\ UNCHANGED <<sources, cache, cache_max_size, cache_hits, cache_misses, next_id, gets, uses>>
    /\ UNCHANGED arg
    /\ UNCHANGED componentVars

\* component.list_parts()
ListParts ==
    /\ result' = Built
    /\ last' = Call("list_parts", FALSE, "ok", <<>>, 0, <<>>,
                    IF Built.has_info THEN part_names(Built.parts) ELSE <<>>)
    /\ UNCHANGED <<sources, cache, cache_max_size, cache_hits, cache_misses, next_id, gets, uses>>
    /\ UNCHANGED arg
    /\ UNCHANGED componentVars

\* component.get_color_map()
GetColorMap ==
    /\ result' = Built
    /\ last' = Call("get_color_map", FALSE, "ok", <<>>, 0, <<>>,
                    IF Built.has_info THEN ColorMapFrom(Built.parts, <<>>) ELSE <<>>)
    /\ UNCHANGED <<sources, cache, cache_max_size, cache_hits, cache_misses, next_id, gets, uses>>
    /\ UNCHANGED arg
    /\ UNCHANGED componentVars

NextAssembly ==
    \/ ElectronicsGeometry
    \/ GetAssembly
    \/ ListParts
    \/ GetColorMap

SpecAssembly == InitAssembly /\ [][NextAssembly]_vars

(***************************************************************************)
(* PartCADSource                                                           *)
(*                                                                         *)
(* The source is [initialized, context, indexed_parts, asked, calls]:      *)
(* context tells a PartCAD context from None, indexed_parts is the dict    *)
(* full path -> [name, package] in insertion order, asked lists the        *)
(* package paths _ensure_indexed has passed to ctx.get_project, calls      *)
(* counts the public calls made.  What PartCAD answers during one call is  *)
(* [init_ok, projects, part]: whether partcad.init succeeds, what          *)
(* get_project answers per package, and what get_part answers.             *)
(***************************************************************************)

\* the module's default package list, two packages standing for its seven
DEFAULT_PACKAGES == << <<"/", "/", "a">>, <<"/", "/", "b">> >>

\* self._packages = packages or DEFAULT_PACKAGES
PackagesOf(packages) == IF packages = <<>> THEN DEFAULT_PACKAGES ELSE packages

\* what PartCAD answers during one call: get_project an exception, a project
\* without parts, or the part names of project.parts in order; get_part a
\* part, None or an exception
Answers ==
    LET ProjectAnswers ==
            { <<"raise">>, <<"none">>, <<"parts", <<"x">> >>,
              <<"parts", <<"f", "/", "x">>, <<"x">> >> }
    IN  [init_ok : BOOLEAN,
         projects : [{DEFAULT_PACKAGES[1], DEFAULT_PACKAGES[2]} -> ProjectAnswers],
         part : {"ok", "none", "raise"}]

\* s.startswith(prefix)
StartsWith(s, prefix) ==
    Len(s) >= Len(prefix) /\ SubSeq(s, 1, Len(prefix)) = prefix

\* sub in s
Contains(s, sub) ==
    \E i \in 1..(Len(s) - Len(sub) + 1) : SubSeq(s, i, i + Len(sub) - 1) = sub

_normalize_path(path) ==
    <<"/", "/">> \o (IF StartsWith(path, <<"/", "/">>) THEN SubSeq(path, 3, Len(path))
                     ELSE path)

RECURSIVE IndexParts(_, _, _)
\* the loop over project.parts.items() of one package
IndexParts(package_path, part_names_, index) ==
    IF part_names_ = <<>> THEN index
    ELSE IndexParts(package_path, Tail(part_names_),
                    DictSet(index, package_path \o <<":">> \o Head(part_names_),
                            [name |-> Head(part_names_), package |-> package_path]))

RECURSIVE IndexPackages(_, _, _)
\* the loop over self._packages: a package whose project raises or is falsy
\* is skipped
IndexPackages(packages, projects, index) ==
    IF packages = <<>> THEN index
    ELSE LET answer == projects[Head(packages)]
         IN  IndexPackages(Tail(packages), projects,
                           IF answer[1] = "parts"
                           THEN IndexParts(Head(packages), Tail(answer), index)
                           ELSE index)

\* _get_context(): [ok, src]; partcad.init is called only while there is no
\* context
GetContext(src, env) ==
    IF src.context THEN [ok |-> TRUE, src |-> src]
    ELSE IF env.init_ok THEN [ok |-> TRUE, src |-> [src EXCEPT !.context = TRUE]]
    ELSE [ok |-> FALSE, src |-> src]

\* a source that leaves the flag unset when the context cannot be initialised
EnsureIndexedRetry(src, packages, env) ==
    IF src.initialized THEN src
    ELSE LET ctx == GetContext(src, env)
         IN  IF ~ctx.ok THEN ctx.src
             ELSE [ctx.src EXCEPT
                      !.indexed_parts = IndexPackages(packages, env.projects, @),
                      !.asked = @ \o packages,
                      !.initialized = TRUE]

\* _ensure_indexed()
_ensure_indexed(src, packages, env) ==
    IF src.initialized THEN src
    ELSE LET ctx == GetContext(src, env)
         IN  IF ~ctx.ok THEN [ctx.src EXCEPT !.initialized = TRUE]
             ELSE [ctx.src EXCEPT
                      !.indexed_parts = IndexPackages(packages, env.projects, @),
                      !.asked = @ \o packages,
                      !.initialized = TRUE]

RECURSIVE ReplaceChar(_, _, _)
\* s.replace(old, new) for a one-character old
ReplaceChar(s, old, new) ==
    IF s = <<>> THEN <<>>
    ELSE (IF Head(s) = old THEN new ELSE << Head(s) >>) \o ReplaceChar(Tail(s), old, new)

RECURSIVE SearchPaths(_, _)
\* the partcad_path of the specs search(query) yields
SearchPaths(index, query) ==
    LET \* _get_description(part_name, {}).lower(): the parts indexed here have
        \* no "desc" and only lower-case letters, which title() then lower()
        \* leave alone
        DescriptionLower(part_name) ==
            ReplaceChar(ReplaceChar(ReplaceChar(part_name, "/", <<" ", "-", " ">>),
                                    "-", <<" ">>), "_", <<" ">>)
    IN  IF index = <<>> THEN <<>>
        ELSE (IF \/ Contains(Head(index)[2].name, query)
                 \/ Contains(DescriptionLower(Head(index)[2].name), query)
                 \/ Contains(Head(index)[1], query)
              THEN << Head(index)[1] >> ELSE <<>>)
             \o SearchPaths(Tail(index), query)

\* the first indexed path whose part name is `name` or ends with "/" + name,
\* None when there is none
ShortNamePath(index, name) ==
    LET found == {i \in 1..Len(index) :
                     \/ index[i][2].name = name
                     \/ LET n == index[i][2].name
                            suffix == <<"/">> \o name
                        IN  /\ Len(n) >= Len(suffix)
                            /\ SubSeq(n, Len(n) - Len(suffix) + 1, Len(n)) = suffix}
    IN  IF found = {} THEN None
        ELSE index[CHOOSE i \in found : \A j \in found : i <= j][1]

\* ctx.get_part(full_path) behind _get_context(), as get_component and
\* get_part_info use it: [status, value, src]
LoadPart(src, env, full_path) ==
    LET ctx == GetContext(src, env)
    IN  IF ctx.ok /\ env.part = "ok"
        THEN [status |-> "ok", value |-> full_path, src |-> ctx.src]
        ELSE [status |-> "KeyError", value |-> <<>>, src |-> ctx.src]

\* PartCADSource.get_component(name) after _ensure_indexed()
PartCADGetComponent(src, env, name) ==
    IF Contains(name, <<":">>) \/ StartsWith(name, <<"/", "/">>)
    THEN IF ~Contains(_normalize_path(name), <<":">>)
         THEN [status |-> "KeyError", value |-> <<>>, src |-> src]
         ELSE LoadPart(src, env, _normalize_path(name))
    ELSE IF ShortNamePath(src.indexed_parts, name) = None
         THEN [status |-> "KeyError", value |-> <<>>, src |-> src]
         ELSE LoadPart(src, env, ShortNamePath(src.indexed_parts, name))

\* PartCADSource.get_part_info(path) after _ensure_indexed()
PartCADGetPartInfo(src, env, path) ==
    IF Contains(path, <<":">>) \/ StartsWith(path, <<"/", "/">>)
    THEN LoadPart(src, env, _normalize_path(path))
    ELSE IF ShortNamePath(src.indexed_parts, path) = None
         THEN [status |-> "KeyError", value |-> <<>>, src |-> src]
         ELSE LoadPart(src, env, ShortNamePath(src.indexed_parts, path))

\* a PartCADSource was constructed with a package list, empty for the defaults
InitIndex ==
    /\ sources = <<>>
    /\ cache = <<>>
    /\ cache_max_size = 0
    /\ cache_hits = 0
    /\ cache_misses = 0
    /\ next_id = 1
    /\ gets = [cached |-> 0, bypass |-> 0]
    /\ uses = <<>>
    /\ last = NoCall
    /\ InitComponents
    /\ arg \in {<<>>} \cup {<<DEFAULT_PACKAGES[i]>> : i \in 1..2}
                \cup {<<DEFAULT_PACKAGES[i], DEFAULT_PACKAGES[3 - i]>> : i \in 1..2}
    /\ result = [initialized |-> FALSE, context |-> FALSE, indexed_parts |-> <<>>,
                 asked |-> <<>>, calls |-> 0]

\* the frame of a call on the source: it ends in state src with the outcome
SourceCall(op, status, value, src) ==
    /\ result.calls < MaxCalls
    /\ result' = [src EXCEPT !.calls = @ + 1]
    /\ last' = Call(op, FALSE, status, <<>>, 0, <<>>, value)
    /\ UNCHANGED <<sources, cache, cache_max_size, cache_hits, cache_misses, next_id, gets, uses>>
    /\ UNCHANGED arg
    /\ UNCHANGED componentVars

\* list(source.list_components())
PartCADListComponents(env) ==
    LET src == _ensure_indexed(result, PackagesOf(arg), env)
    IN  SourceCall("list_components", "ok",
                   [i \in 1..Len(src.indexed_parts) |-> src.indexed_parts[i][1]], src)

\* list(source.search(query))
PartCADSearch(env, query) ==
    LET src == _ensure_indexed(result, PackagesOf(arg), env)
    IN  SourceCall("search", "ok", SearchPaths(src.indexed_parts, query), src)

\* source.get_component(name)
PartCADGet(env, name) ==
    LET r == PartCADGetComponent(_ensure_indexed(result, PackagesOf(arg), env), env, name)
    IN  SourceCall("get_component", r.status, r.value, r.src)

\* source.get_part_info(path)
PartCADInfo(env, path) ==
    LET r == PartCADGetPartInfo(_ensure_indexed(result, PackagesOf(arg), env), env, path)
    IN  SourceCall("get_part_info", r.status, r.value, r.src)

NextIndex ==
    \/ \E env \in Answers : PartCADListComponents(env)
    \/ \E env \in Answers, query \in { <<"x">>, <<" ">>, <<"b", ":">> } :
           PartCADSearch(env, query)
    \/ \E env \in Answers,
          name \in { <<"x">>, <<"y">>, <<"/", "/", "a">>, <<"a", ":", "x">>,
                     <<"/", "/", "b", ":", "x">> } :
           PartCADGet(env, name)
    \/ \E env \in Answers,
          path \in { <<"x">>, <<"/", "/", "a">>, <<"a", ":", "x">> } :
           PartCADInfo(env, path)

SpecIndex == InitIndex /\ [][NextIndex]_vars

(***************************************************************************)
(* Component.geometry read by several threads                              *)
(*                                                                         *)
(* One base component is shared.  `arg` is its build function, pure: the   *)
(* value it returns, or "raise" when it raises.  `result` is               *)
(* [geometry, next, builds, pc, local, count, ret]: _geometry, an object   *)
(* [id, value] with id 0 for None; the identity of the next object built;  *)
(* the number of build() invocations; and per thread its position in the   *)
(* property ("idle", "build", "assign", "return"), the object its build()  *)
(* returned, the accesses it has begun and the objects returned to it.     *)
(* The steps are the reads and writes of _geometry in the property's       *)
(* three lines, which threads interleave freely.                           *)
(***************************************************************************)
InitRace ==
    /\ sources = <<>>
    /\ cache = <<>>
    /\ cache_max_size = 0
    /\ cache_hits = 0
    /\ cache_misses = 0
    /\ next_id = 1
    /\ gets = [cached |-> 0, bypass |-> 0]
    /\ uses = <<>>
    /\ last = NoCall
    /\ InitComponents
    /\ arg \in {"box", "plate", "raise"}
    /\ result = [geometry |-> [id |-> 0, value |-> "none"], next |-> 1, builds |-> 0,
                 pc |-> [t \in 1..MaxThreads |-> "idle"],
                 local |-> [t \in 1..MaxThreads |-> [id |-> 0, value |-> "none"]],
                 count |-> [t \in 1..MaxThreads |-> 0],
                 ret |-> [t \in 1..MaxThreads |-> {}]]

\* the frame of a step of thread t that leaves the component in state r
RaceStep(t, op, status, r) ==
    /\ result' = r
    /\ last' = Call(op, FALSE, status, <<>>, t, <<>>, 0)
    /\ UNCHANGED <<sources, cache, cache_max_size, cache_hits, cache_misses, next_id, gets, uses>>
    /\ UNCHANGED arg
    /\ UNCHANGED componentVars

\* the mutant: the test is skipped and every access builds
RaceCheckAlwaysBuild(t) ==
    /\ result.pc[t] = "idle"
    /\ result.count[t] < MaxThreadAccesses
    /\ RaceStep(t, "check", "ok",
                [result EXCEPT !.count[t] = @ + 1, !.pc[t] = "build"])

\* "if self._geometry is None:" read by thread t
RaceCheck(t) ==
    /\ result.pc[t] = "idle"
    /\ result.count[t] < MaxThreadAccesses
    /\ RaceStep(t, "check", "ok",
                [result EXCEPT !.count[t] = @ + 1,
                               !.pc[t] = IF result.geometry.id = 0 THEN "build"
                                         ELSE "return"])

\* "self.build()" called by thread t: a new object, or the exception, which
\* ends the access
RaceBuild(t) ==
    /\ result.pc[t] = "build"
    /\ IF arg = "raise"
       THEN RaceStep(t, "build", "raise",
                     [result EXCEPT !.builds = @ + 1, !.pc[t] = "idle"])
       ELSE RaceStep(t, "build", "ok",
                     [result EXCEPT !.builds = @ + 1, !.next = @ + 1,
                                    !.local[t] = [id |-> result.next, value |-> arg],
                                    !.pc[t] = "assign"])

\* "self._geometry = ..." written by thread t
RaceAssign(t) ==
    /\ result.pc[t] = "assign"
    /\ RaceStep(t, "assign", "ok",
                [result EXCEPT !.geometry = result.local[t], !.pc[t] = "return"])

\* "return self._geometry" read by thread t
RaceReturn(t) ==
    /\ result.pc[t] = "return"
    /\ RaceStep(t, "return", "ok",
                [result EXCEPT !.ret[t] = @ \cup {result.geometry}, !.pc[t] = "idle"])

NextRace ==
    \/ \E t \in 1..MaxThreads : RaceCheck(t)
    \/ \E t \in 1..MaxThreads : RaceBuild(t)
    \/ \E t \in 1..MaxThreads : RaceAssign(t)
    \/ \E t \in 1..MaxThreads : RaceReturn(t)

SpecRace == InitRace /\ [][NextRace]_vars

(***************************************************************************)
(* ComponentRegistry.search, list_all and list_from                        *)
(*                                                                         *)
(* What an iteration yields is recorded as the <<source, name>> of its     *)
(* specs, in order.  The catalog entries modelled carry no description     *)
(* and only lower-case names, so a source's search matches on the name.    *)
(***************************************************************************)
RECURSIVE Chain(_)
\* "for ...: yield from ..." over a sequence of iterations
Chain(seqs) == IF seqs = <<>> THEN <<>> ELSE Head(seqs) \o Chain(Tail(seqs))

\* ComponentSource.search(query)
SourceSearch(src, query) ==
    LET specs == SelectSeq(list_components(src), LAMBDA spec : Contains(spec.name, query))
    IN  [i \in 1..Len(specs) |-> <<specs[i].source, specs[i].name>>]

\* ComponentRegistry.search(query, source), source None being <<>>
search(srcs, query, source) ==
    IF source # None /\ source \in RegisteredNames(srcs)
    THEN SourceSearch(srcs[SourceIndex(srcs, source)], query)
    ELSE Chain([i \in 1..Len(srcs) |-> SourceSearch(srcs[i], query)])

\* the frame of an iteration over the registry that yielded `value`
Listing(op, source, value) ==
    /\ last' = Call(op, FALSE, "ok", source, 0, <<>>, value)
    /\ UNCHANGED <<sources, cache, cache_max_size, cache_hits, cache_misses, next_id,
                   gets, uses>>
    /\ UNCHANGED componentVars
    /\ UNCHANGED callerVars

\* list(registry.search(query, source))
Search(query, source) == Listing("search", source, search(sources, query, source))

\* list(registry.list_all())
ListAll == Listing("list_all", None, search(sources, <<>>, None))

\* list(registry.list_from(source_name))
ListFrom(source_name) ==
    Listing("list_from", source_name,
            IF source_name \in RegisteredNames(sources)
            THEN search(sources, <<>>, source_name) ELSE <<>>)

\* every operation of the registry, with a source name that is never
\* registered among the names asked for
NextSearch ==
    \/ \E src \in SourcePool : RegisterSource(src)
    \/ \E name \in SourceNames : UnregisterSource(name)
    \/ \E full_name \in RequestNames, use_cache \in BOOLEAN, params \in RequestParams :
           /\ gets.cached + gets.bypass < MaxLookups
           /\ Get(full_name, use_cache, params)
    \/ \E name \in RequestNames : GetSpec(name)
    \/ ClearCache
    \/ \E query \in { <<"a">>, <<"b">>, <<"z">> },
          source \in SourceNames \cup {None, <<"u">>} : Search(query, source)
    \/ ListAll
    \/ \E source_name \in SourceNames \cup { <<"u">> } : ListFrom(source_name)

SpecSearch == Init /\ [][NextSearch]_vars

(***************************************************************************)
(* Properties                                                              *)
(***************************************************************************)

\* C1: the cache holds exactly the (up to max_size) most recently used keys,
\* oldest first, where `uses` lists the keys inserted or hit since the last
\* clear, newest first; so an insertion over capacity evicts the least recently
\* used key and a key that was hit before the insertion outlives an older one.
C1_LruEviction ==
    /\ Len(cache) = (IF cache_max_size < Len(uses) THEN cache_max_size ELSE Len(uses))
    /\ \A i \in 1..Len(cache) : cache[Len(cache) + 1 - i][1] = uses[i]

\* a third key was inserted into a cache of two after the first key was hit again:
\* the first component is kept, the second one is gone
C1_Witness ==
    /\ cache_max_size = 2
    /\ Len(uses) = 3
    /\ cache_hits = 1
    /\ Len(cache) = 2
    /\ cache[1][2].id = 1
    /\ cache[2][2].id = 3
    /\ last.op = "get" /\ last.status = "ok" /\ ~last.hit

\* C2: after every operation cache_stats().size <= cache_stats().max_size,
\* for every max_size >= 0.
C2_CacheCapacity == cache_stats.size <= cache_stats.max_size

\* a get stored its component in a full cache (of size 0 or more) and the
\* cache is at its capacity again
C2_Witness ==
    /\ last.op = "get" /\ last.status = "ok" /\ ~last.hit
    /\ gets.bypass = 0
    /\ Len(uses) > cache_max_size
    /\ cache_stats.size = cache_stats.max_size

\* C3: hits + misses equals the number of get calls made with use_cache=true.
C3_HitMissAccounting == cache_stats.hits + cache_stats.misses = gets.cached

\* C4: a get with use_cache=true for a key that is in the cache returns the
\* component stored under the key, adds exactly one hit and no miss, moves the
\* key to the most recently used position and calls no source; and an entry
\* that stays in the cache keeps its component.
C4_CacheHit ==
    [][/\ \A full_name \in RequestNames, params \in RequestParams :
              LET cache_key == _make_cache_key(full_name, params)
              IN  (Get(full_name, TRUE, params) /\ cache_key \in CacheKeys(cache)) =>
                      /\ last'.status = "ok"
                      /\ last'.comp = CacheGet(cache, cache_key).id
                      /\ cache_hits' = cache_hits + 1
                      /\ cache_misses' = cache_misses
                      /\ Len(cache') = Len(cache)
                      /\ cache'[Len(cache')] = <<cache_key, CacheGet(cache, cache_key)>>
                      /\ last'.called = <<>>
                      /\ next_id' = next_id
       /\ \A key \in CacheKeys(cache) \cap CacheKeys(cache') :
              CacheGet(cache', key) = CacheGet(cache, key)
      ]_vars

\* a get was a hit on the older of two entries, which is now the newest
C4_Witness ==
    /\ last.op = "get" /\ last.hit
    /\ Len(cache) = 2
    /\ cache[2][2].id = last.comp
    /\ cache[2][2].id < cache[1][2].id

\* C5: the key computed from the caller's parameters is the key of every
\* reordering of them, and the calls get(name, **params) made with the
\* parameters in any order all address one cache entry.
C5_CacheKeyDeterminism ==
    /\ result.done =>
           \A q \in Reorderings(arg.params) : _make_cache_key(arg.name, q) = result.key
    /\ Len(cache) <= 1
    /\ \A i \in 1..Len(cache) :
           \A q \in Reorderings(arg.params) : cache[i][1] = _make_cache_key(arg.name, q)

\* three parameters supplied out of sorted order: the key was computed, and
\* gets made in several orders hit the entry of the first one
C5_Witness ==
    /\ result.done
    /\ Len(arg.params) = 3
    /\ arg.params # SortedItems(arg.params)
    /\ Len(cache) = 1
    /\ cache_hits >= 2

(***************************************************************************)
(* Name resolution                                                         *)
(***************************************************************************)
\* the test "len(parts) >= 3 ... if source_name in self._sources" of _get_uncached
IsFullyQualified(srcs, full_name) ==
    /\ Len(Split(full_name, "/")) >= 3
    /\ Split(full_name, "/")[1] \in RegisteredNames(srcs)

\* what each registered source's get_component does with the name, in
\* registration order
SourceStatuses(srcs, name, params) ==
    [i \in 1..Len(srcs) |-> get_component(srcs[i], name, params).status]

\* C6: when a short name is resolved and every registered source raises
\* not-found or missing-required, at least one of them missing-required, get
\* raises a missing-required error of one of those sources, after asking every
\* source, wherever the not-found sources are registered.
C6_FallbackErrorPrecedence ==
    [][\A full_name \in RequestNames, use_cache \in BOOLEAN, params \in RequestParams :
           LET st == SourceStatuses(sources, full_name, params)
           IN  (/\ last'.op = "get"
                /\ Get(full_name, use_cache, params)
                /\ ~IsHit(use_cache, _make_cache_key(full_name, params), cache)
                /\ ~IsFullyQualified(sources, full_name)
                /\ \A i \in 1..Len(st) : st[i] \in {"KeyError", "ValueError"}
                /\ \E i \in 1..Len(st) : st[i] = "ValueError") =>
                   /\ last'.status = "ValueError"
                   /\ \E i \in 1..Len(st) :
                          st[i] = "ValueError" /\ last'.source = sources[i].name
                   /\ Len(last'.called) = Len(sources)
                   /\ cache' = cache
      ]_vars

\* the source that lacks the name is registered after the one that reported
\* the missing parameter, and get raised the missing-required error
C6_Witness ==
    /\ sources = <<SourceS2, SourceT2>>
    /\ last.op = "get" /\ last.status = "ValueError"
    /\ last.source = <<"s">>
    /\ Len(last.called) = 2

\* C7 as stated: a missing-required or a parameter-validation error of a source
\* does not stop the short-name search, a later source that resolves the name
\* has its component returned.
C7_SearchContinuesAfterParameterError ==
    [][\A full_name \in RequestNames, use_cache \in BOOLEAN, params \in RequestParams :
           LET st == SourceStatuses(sources, full_name, params)
           IN  (/\ last'.op = "get"
                /\ Get(full_name, use_cache, params)
                /\ ~IsHit(use_cache, _make_cache_key(full_name, params), cache)
                /\ ~IsFullyQualified(sources, full_name)) =>
                   \A j \in 1..Len(st) :
                       (/\ st[j] = "ok"
                        /\ \A h \in 1..(j - 1) : st[h] # "ok"
                        /\ \E i \in 1..(j - 1) :
                               st[i] \in {"ValueError", "ParameterValidationError"}) =>
                           /\ last'.status = "ok"
                           /\ last'.source = sources[j].name
      ]_vars

\* C7: in the short-name search a missing-required error is remembered and the
\* search goes on, so the first source that resolves the name or fails the
\* parameter validation decides the call: a resolving source's component is
\* returned, a parameter-validation error is raised at once, and in both cases
\* no later source is asked.
C7_MissingRequiredContinues ==
    [][\A full_name \in RequestNames, use_cache \in BOOLEAN, params \in RequestParams :
           LET st == SourceStatuses(sources, full_name, params)
           IN  (/\ last'.op = "get"
                /\ Get(full_name, use_cache, params)
                /\ ~IsHit(use_cache, _make_cache_key(full_name, params), cache)
                /\ ~IsFullyQualified(sources, full_name)) =>
                   \A j \in 1..Len(st) :
                       (/\ st[j] \in {"ok", "ParameterValidationError"}
                        /\ \A h \in 1..(j - 1) : st[h] \in {"KeyError", "ValueError"}) =>
                           /\ last'.status = st[j]
                           /\ last'.source = sources[j].name
                           /\ Len(last'.called) = j
                           /\ \A h \in 1..j : last'.called[h][1] = sources[h].name
      ]_vars

\* the first source reported a missing parameter, the second one resolved the
\* name and its component was returned
C7_Witness ==
    /\ sources = <<SourceT, SourceS>>
    /\ last.op = "get" /\ last.status = "ok" /\ ~last.hit
    /\ last.source = <<"s">>
    /\ last.called = << <<(<<"t">>), (<<"a">>)>>, <<(<<"s">>), (<<"a">>)>> >>

\* C8: a get that is not a hit, for a name of three or more segments whose
\* first segment is a registered source, calls get_component of that source
\* only, with the last segment, and returns its component or raises its error.
C8_FullyQualifiedLookup ==
    [][\A full_name \in RequestNames, use_cache \in BOOLEAN, params \in RequestParams :
           LET parts == Split(full_name, "/")
           IN  (/\ last'.op = "get"
                /\ Get(full_name, use_cache, params)
                /\ ~IsHit(use_cache, _make_cache_key(full_name, params), cache)
                /\ Len(parts) >= 3
                /\ parts[1] \in RegisteredNames(sources)) =>
                   LET src == sources[SourceIndex(sources, parts[1])]
                       r == get_component(src, parts[Len(parts)], params)
                   IN  /\ last'.called = << <<parts[1], parts[Len(parts)]>> >>
                       /\ last'.status = r.status
                       /\ last'.source = parts[1]
                       /\ r.status = "ok" => last'.comp = next_id
                       /\ (r.status = "ok" /\ use_cache /\ cache_max_size > 0) =>
                              cache'[Len(cache')][2].spec = r.spec
                       /\ r.status # "ok" => cache' = cache
      ]_vars

\* the named source reported a missing parameter and the other source, which
\* resolves "a" without parameters, was not asked
C8_Witness ==
    /\ sources = <<SourceS, SourceT>>
    /\ last.op = "get" /\ last.status = "ValueError"
    /\ last.called = << <<(<<"t">>), (<<"a">>)>> >>

\* C9 as stated: get_spec(name) returns a spec of the source that get resolves
\* the name to, and raises not-found exactly when get finds the name in no
\* source.
C9_SameResolution ==
    [][\A name \in RequestNames : (last'.op = "get_spec" /\ GetSpec(name)) =>
           \A params \in RequestParams :
               LET g == _get_uncached(sources, name, params)
               IN  /\ g.status = "ok" => (last'.status = "ok" /\ last'.source = g.source)
                   /\ last'.status = "KeyError" <=> g.status = "KeyError"
      ]_vars

\* C9: get_spec(name) returns the entry of the named source's listing when the
\* name is fully qualified and that listing has the last segment, otherwise
\* the entry of the first listing in registration order that has the whole
\* name, and raises not-found when no listing has it; it calls no
\* get_component, changes nothing, and succeeds where get without parameters
\* raises missing-required; it agrees with get on the source when no source
\* registered before get's one lists the name.
C9_GetSpecListing ==
    [][\A name \in RequestNames : (last'.op = "get_spec" /\ GetSpec(name)) =>
           LET parts == Split(name, "/")
               Lists(i, n) == n \in DictKeys(sources[i].catalog)
               direct == /\ IsFullyQualified(sources, name)
                         /\ Lists(SourceIndex(sources, parts[1]), parts[Len(parts)])
               listing == {i \in 1..Len(sources) : Lists(i, name)}
               g == _get_uncached(sources, name, <<>>)
           IN  /\ direct => (last'.status = "ok" /\ last'.source = parts[1])
               /\ (~direct /\ listing # {}) =>
                      /\ last'.status = "ok"
                      /\ \E i \in listing : /\ \A h \in listing : i <= h
                                            /\ last'.source = sources[i].name
               /\ (~direct /\ listing = {}) => last'.status = "KeyError"
               /\ last'.called = <<>>
               /\ cache' = cache /\ cache_hits' = cache_hits
               /\ cache_misses' = cache_misses /\ next_id' = next_id
               /\ g.status = "ValueError" => last'.status = "ok"
               /\ (/\ g.status = "ok"
                   /\ \A h \in listing : sources[h].name # g.source =>
                          SourceIndex(sources, g.source) < h) =>
                      (last'.status = "ok" /\ last'.source = g.source)
      ]_vars

\* get_spec returned the entry of the first of two listings that have the
\* name, a source whose get_component needs a parameter
C9_Witness ==
    /\ sources = <<SourceT, SourceS>>
    /\ last.op = "get_spec" /\ last.status = "ok"
    /\ last.source = <<"t">>

C11_BuildFailureReported ==
    [][\A c \in 1..MaxComponents, outcome \in BuildOutcomes,
          geometry \in ComponentGeometries :
           (/\ last'.op = "validate"
            /\ last'.comp = c
            /\ c \in Allocated
            /\ Geometry(ComponentState, c, outcome).status = "raise"
            /\ Validate(c, outcome, geometry)) =>
               /\ last'.status = "BUILD_FAILED"
               /\ last'.report =
                      [is_valid |-> FALSE,
                       issues |-> << [severity |-> "error", code |-> "BUILD_FAILED"] >>,
                       bbox_size |-> <<>>, solid_count |-> 0, face_count |-> 0]
               /\ heap[c].geometry = 0 /\ heap'[c].geometry = 0
               /\ builds'[c] = builds[c] + 1
      ]_vars

\* validate on a decorator whose wrapped component fails to build returned
\* the BUILD_FAILED result
C11_Witness ==
    /\ last.op = "validate" /\ last.status = "BUILD_FAILED"
    /\ heap[last.comp].kind = "translated"
    /\ builds[heap[last.comp].wrapped] = 1
    /\ ~last.report.is_valid

\* C12: every result of validate_geometry and of Component.validate has
\* is_valid = false exactly when one of its issues has the severity error.
C12_ValidationMonotonicity ==
    /\ result.done =>
           (~result.report.is_valid <=>
               \E i \in 1..Len(result.report.issues) :
                   result.report.issues[i].severity = "error")
    /\ last.op = "validate" =>
           (~last.report.is_valid <=>
               \E i \in 1..Len(last.report.issues) :
                   last.report.issues[i].severity = "error")

\* validate_geometry ran all its checks and found warnings only, so the result
\* is valid, and a validate on a component whose build() raised is not
C12_Witness ==
    /\ result.done
    /\ arg.vals = "ok"
    /\ Len(result.report.issues) >= 2
    /\ result.report.is_valid
    /\ last.op = "validate" /\ last.status = "BUILD_FAILED"
    /\ ~last.report.is_valid

\* C13: for a geometry with no shapes validate_geometry returns exactly the
\* error EMPTY_GEOMETRY and the default metrics, whatever the later checks
\* would have found, directly and under Component.validate.
C13_EmptyGeometryShortCircuit ==
    LET Empty == [is_valid |-> FALSE,
                  issues |-> << [severity |-> "error", code |-> "EMPTY_GEOMETRY"] >>,
                  bbox_size |-> <<>>, solid_count |-> 0, face_count |-> 0]
    IN  arg.vals = "empty" =>
            /\ result.done => result.report = Empty
            /\ (last.op = "validate" /\ last.status = "checked") => last.report = Empty

\* an empty geometry whose later checks would have reported two solids, a
\* bounding box and an invalid shape was validated
C13_Witness ==
    /\ arg.vals = "empty"
    /\ arg.solids = 2 /\ arg.bbox # <<>> /\ arg.occ = "invalid"
    /\ result.done
    /\ Len(result.report.issues) = 1

\* C14: when the kernel validity check cannot be imported or throws, the
\* result of validate_geometry has the warning OCC_CHECK_FAILED, and is
\* invalid only if it has an error issue too.
C14_KernelCheckDegradation ==
    (result.done /\ arg.vals = "ok" /\ arg.occ \in {"import_error", "raise"}) =>
        /\ \E i \in 1..Len(result.report.issues) :
               result.report.issues[i] = [severity |-> "warning", code |-> "OCC_CHECK_FAILED"]
        /\ ~result.report.is_valid =>
               \E i \in 1..Len(result.report.issues) :
                   result.report.issues[i].severity = "error"

(***************************************************************************)
(* Parameter validation and get_component of the sources                   *)
(***************************************************************************)
\* C15: validate_params reports every problem of a call in one failure: one
\* entry for the unknown keys (in strict mode) and one for each known key whose
\* value has the wrong type or is out of range; it succeeds exactly when there
\* is no problem.
C15_ErrorAggregation ==
    (result.done /\ result.op = "validate_params") =>
        LET schema == SchemaOf(arg.source, arg.name)
            known == {schema[i][1] : i \in 1..Len(schema)}
            provided == {arg.params[i][1] : i \in 1..Len(arg.params)}
            unknown == provided \ known
            Item(key) == schema[CHOOSE i \in 1..Len(schema) : schema[i][1] = key][2]
            TypeBad(i) == arg.params[i][2].t \notin Item(arg.params[i][1]).types
            RangeBad(i) ==
                /\ arg.params[i][2].t = "int"
                /\ \/ Item(arg.params[i][1]).min.has
                      /\ arg.params[i][2].n < Item(arg.params[i][1]).min.n
                   \/ Item(arg.params[i][1]).max.has
                      /\ arg.params[i][2].n > Item(arg.params[i][1]).max.n
            bad == {i \in 1..Len(arg.params) :
                       arg.params[i][1] \in known /\ (TypeBad(i) \/ RangeBad(i))}
            reported == arg.strict /\ unknown # {}
            errors == result.r.errors
        IN  /\ result.r.ok <=> (~reported /\ bad = {})
            /\ Len(errors) = (IF reported THEN 1 ELSE 0) + Cardinality(bad)
            /\ reported =>
                   \E e \in 1..Len(errors) :
                       errors[e].kind = "unknown" /\ errors[e].keys = unknown
            /\ \A i \in bad :
                   \E e \in 1..Len(errors) :
                       /\ errors[e].keys = {arg.params[i][1]}
                       /\ errors[e].kind = IF TypeBad(i) THEN "type"
                                           ELSE IF arg.params[i][2].n < 1 THEN "min"
                                           ELSE "max"

\* an unknown key, a value of the wrong type and a value out of range were
\* reported together
C15_Witness ==
    /\ result.done /\ result.op = "validate_params"
    /\ arg.strict
    /\ ~result.r.ok
    /\ {result.r.errors[e].kind : e \in 1..Len(result.r.errors)} = {"unknown", "type", "max"}

\* C16: with strict an unknown key makes validate_params fail; without strict
\* unknown keys are never reported, the known keys are checked all the same,
\* and a successful call returns exactly the provided known items, as provided.
C16_StrictVersusPermissive ==
    (result.done /\ result.op = "validate_params") =>
        LET schema == SchemaOf(arg.source, arg.name)
            known == {schema[i][1] : i \in 1..Len(schema)}
            provided == {arg.params[i][1] : i \in 1..Len(arg.params)}
            unknown == provided \ known
            wrong == {i \in 1..Len(arg.params) :
                         /\ arg.params[i][1] \in known
                         /\ arg.params[i][2] # IntV(1)}
            errors == result.r.errors
        IN  /\ (arg.strict /\ unknown # {}) => ~result.r.ok
            /\ ~arg.strict =>
                   /\ result.r.ok <=> wrong = {}
                   /\ \A e \in 1..Len(errors) :
                          errors[e].kind # "unknown" /\ errors[e].keys \subseteq known
            /\ result.r.ok =>
                   result.r.params = SelectSeq(arg.params, LAMBDA item : item[1] \in known)

\* without strict a call with an unknown key succeeded and returned the one
\* known item, without the default of the parameter that was not provided
C16_Witness ==
    /\ result.done /\ result.op = "validate_params"
    /\ ~arg.strict
    /\ arg.name = <<"q">>
    /\ Len(arg.params) = 2
    /\ result.r.ok
    /\ result.r.params = << <<(<<"k">>), IntV(1)>> >>

\* C17: ElectronicsSource.get_component raises not-found for an unknown name
\* whatever the parameters, else the missing-required ValueError naming every
\* missing parameter when one is missing, whatever else is wrong with the
\* parameters, and validates against the schema only when none is missing.
C17_CheckOrdering ==
    (result.done /\ result.op = "get_component" /\ arg.source.kind = "electronics") =>
        LET catalog == arg.source.catalog
            names == {catalog[i][1] : i \in 1..Len(catalog)}
            entry == catalog[CHOOSE i \in 1..Len(catalog) : catalog[i][1] = arg.name][2]
            provided == {arg.params[i][1] : i \in 1..Len(arg.params)}
            missing == SelectSeq(entry.required, LAMBDA key : key \notin provided)
            v == validate_params(entry.schema, arg.params, arg.strict)
        IN  /\ arg.name \notin names => result.r.status = "KeyError"
            /\ (arg.name \in names /\ missing # <<>>) =>
                   /\ result.r.status = "ValueError"
                   /\ result.r.detail = missing
            /\ (arg.name \in names /\ missing = <<>>) =>
                   /\ result.r.status = IF v.ok THEN "ok" ELSE "ParameterValidationError"
                   /\ ~v.ok => result.r.detail = v.errors

\* a call that omits the required m, gives k out of range and adds an unknown
\* key raised the missing-required error naming m
C17_Witness ==
    /\ result.done /\ result.op = "get_component"
    /\ arg.source = SourceE /\ arg.name = <<"p">> /\ arg.strict
    /\ arg.params = << <<(<<"k">>), IntV(3)>>, <<(<<"c">>), IntV(1)>> >>
    /\ result.r.status = "ValueError"
    /\ result.r.detail = << (<<"m">>) >>

\* C18 as stated: in the params of the spec of a returned component every
\* provided key carries the provided value, every default key that was not
\* provided carries its default, and there is no other key.
C18_DefaultMerging ==
    (result.done /\ result.op = "get_component" /\ result.r.status = "ok") =>
        LET catalog == arg.source.catalog
            defaults == catalog[CHOOSE i \in 1..Len(catalog) : catalog[i][1] = arg.name][2].defaults
            provided == {arg.params[i][1] : i \in 1..Len(arg.params)}
            final == result.r.spec.params
        IN  /\ \A i \in 1..Len(arg.params) :
                   \E j \in 1..Len(final) : final[j] = arg.params[i]
            /\ \A i \in 1..Len(defaults) :
                   defaults[i][1] \notin provided =>
                       \E j \in 1..Len(final) : final[j] = defaults[i]
            /\ \A j \in 1..Len(final) :
                   final[j][1] \in provided \cup {defaults[i][1] : i \in 1..Len(defaults)}

\* C18: the params of the spec of a returned component are the declared
\* defaults overridden by the parameters the source keeps: every provided
\* parameter on the custom source, the provided parameters the schema knows on
\* the electronics source (without strict the unknown ones are dropped); every
\* kept key carries the provided value, every default key not kept carries its
\* default, and there is no other key and no key twice.
C18_ValidatedMerging ==
    (result.done /\ result.op = "get_component" /\ result.r.status = "ok") =>
        LET catalog == arg.source.catalog
            entry == catalog[CHOOSE i \in 1..Len(catalog) : catalog[i][1] = arg.name][2]
            defaults == entry.defaults
            known == {entry.schema[i][1] : i \in 1..Len(entry.schema)}
            kept == {i \in 1..Len(arg.params) :
                        arg.source.kind = "custom" \/ arg.params[i][1] \in known}
            keptKeys == {arg.params[i][1] : i \in kept}
            final == result.r.spec.params
        IN  /\ \A i \in kept : \E j \in 1..Len(final) : final[j] = arg.params[i]
            /\ \A i \in 1..Len(defaults) :
                   defaults[i][1] \notin keptKeys =>
                       \E j \in 1..Len(final) : final[j] = defaults[i]
            /\ \A j \in 1..Len(final) :
                   final[j][1] \in keptKeys \cup {defaults[i][1] : i \in 1..Len(defaults)}
            /\ \A i, j \in 1..Len(final) : i # j => final[i][1] # final[j][1]
            /\ arg.source.kind = "electronics" =>
                   (arg.strict => kept = 1..Len(arg.params))

\* the electronics component with the defaults k = 1, m = 2 was requested with
\* m = 1 and has k = 1, m = 1
C18_Witness ==
    /\ result.done /\ result.op = "get_component" /\ result.r.status = "ok"
    /\ arg.source = SourceE /\ arg.name = <<"q">>
    /\ arg.params = << <<(<<"m">>), IntV(1)>> >>
    /\ result.r.spec.params = << <<(<<"k">>), IntV(1)>>, <<(<<"m">>), IntV(1)>> >>

(***************************************************************************)
(* Assembly preservation                                                   *)
(***************************************************************************)
\* C19: once the geometry of an ElectronicsComponent is built from an
\* assembly, the component retains the assembly, list_parts() returns the
\* names of the assembly's parts in their order, get_color_map() maps exactly
\* the parts that have a color to it, and the geometry is one flattened shape;
\* built from a flat shape, the assembly is None and both are empty.
C19_AssemblyPreservation ==
    LET parts == arg.children
        colored == {i \in 1..Len(parts) : parts[i].color # <<>>}
    IN  /\ result.built =>
               /\ result.assembly = (IF arg.kind = "assembly" THEN arg ELSE <<>>)
               /\ result.geometry = (IF arg.kind = "assembly" THEN "compound"
                                     ELSE IF arg.kind = "workplane" THEN "workplane"
                                     ELSE "wrapped")
        /\ last.op = "list_parts" =>
               last.value = [i \in 1..Len(parts) |-> parts[i].name]
        /\ last.op = "get_color_map" =>
               /\ {last.value[i][1] : i \in 1..Len(last.value)} =
                      {parts[i].name : i \in colored}
               /\ \A i \in colored :
                      \E j \in 1..Len(last.value) :
                          last.value[j] = <<parts[i].name, parts[i].color>>

(***************************************************************************)
(* Remote index memoization                                                *)
(***************************************************************************)
\* C20: every list_components, get_component, search or get_part_info call
\* leaves the already-indexed flag set, whatever PartCAD answered; a call on
\* a source whose flag is set asks for no package and leaves the index
\* unchanged; so the configured packages are walked at most once.
C20_IndexMemoization ==
    [][/\ result'.initialized
       /\ result.initialized =>
              /\ result'.indexed_parts = result.indexed_parts
              /\ result'.asked = result.asked
       /\ result'.asked \in {<<>>, PackagesOf(arg)}]_vars

\* two calls were made, the first could not initialise the context and the
\* second could: the flag is set and no package was walked
C20_Witness ==
    /\ result.calls >= 2
    /\ result.initialized
    /\ result.context
    /\ result.asked = <<>>
    /\ last.op = "get_component"
    /\ last.status = "ok"

(***************************************************************************)
(* Counter monotonicity                                                    *)
(***************************************************************************)
\* C21: no registry operation decreases cache_stats().hits or .misses;
\* clear_cache returns the number of entries the cache held, leaves the cache
\* empty and leaves hits and misses as they were; the size shrinks only in a
\* clear_cache.
C21_CounterMonotonicity ==
    [][/\ cache_hits' >= cache_hits
       /\ cache_misses' >= cache_misses
       /\ (last'.op = "clear_cache" /\ ClearCache) =>
              /\ last'.value = Len(cache)
              /\ Len(cache') = 0
              /\ cache_hits' = cache_hits
              /\ cache_misses' = cache_misses
       /\ Len(cache') < Len(cache) => last'.op = "clear_cache"
      ]_vars

\* clear_cache removed two entries after hits and misses were counted
C21_Witness ==
    /\ last.op = "clear_cache"
    /\ last.value = 2
    /\ cache = <<>>
    /\ cache_hits >= 1
    /\ cache_misses >= 2

(***************************************************************************)
(* Cache identity                                                          *)
(***************************************************************************)
\* C22: a get with use_cache=true is served from the cache only by an entry
\* stored for the same name and parameters: when a get that resolved and
\* stored a component is followed by a get that is a hit on that component,
\* both asked for the same name and their parameters give the same key only
\* if the names are equal.
C22_CacheIdentity ==
    [][\A full_name \in { <<"a">>, <<"a", ":", "k", "=", "1">> }, params \in RequestParams :
           (/\ last.op = "get" /\ last.status = "ok" /\ ~last.hit
            /\ last'.op = "get" /\ last'.hit /\ last'.comp = last.comp
            /\ Get(full_name, TRUE, params)) =>
               full_name = last.called[Len(last.called)][2]
      ]_vars

C24_NonMutatingDecorators ==
    [][/\ last'.op \in {"translate", "rotate"} =>
              LET d == last'.comp
                  c == heap'[d].wrapped
              IN  /\ heap[d].kind = "free"
                  /\ heap[c].kind # "free"
                  /\ heap'[d].spec = heap[c].spec
                  /\ heap'[d].geometry = 0
                  /\ \A e \in 1..MaxComponents : e # d => heap'[e] = heap[e]
                  /\ builds' = builds /\ accesses' = accesses
       /\ \A c \in 1..MaxComponents :
              /\ heap[c].kind # "free" =>
                     /\ heap'[c].spec = heap[c].spec
                     /\ heap'[c].kind = heap[c].kind
                     /\ heap'[c].wrapped = heap[c].wrapped
              /\ heap[c].geometry # 0 => heap'[c].geometry = heap[c].geometry
              /\ builds'[c] <= builds[c] + 1
              /\ heap'[c].kind \in {"translated", "rotated"} /\ heap'[c].geometry # 0 =>
                     /\ heap'[heap'[c].wrapped].geometry # 0
                     /\ returned'[heap'[c].wrapped] \ {0} = {heap'[heap'[c].wrapped].geometry}
      ]_vars

\* a translated and a rotated copy of one component were both built: the
\* component was built once and keeps that geometry
C24_Witness ==
    \E c, d, e \in 1..MaxComponents :
        /\ heap[d].kind = "translated" /\ heap[d].wrapped = c
        /\ heap[e].kind = "rotated" /\ heap[e].wrapped = c
        /\ heap[d].geometry # 0 /\ heap[e].geometry # 0
        /\ heap[d].spec = heap[c].spec /\ heap[e].spec = heap[c].spec
        /\ builds[c] = 1
        /\ accesses[c] = 2

(***************************************************************************)
(* Source-filtered search                                                  *)
(***************************************************************************)
\* C25: every spec yielded by registry.search(query, source=s) with a source
\* name s given as the filter has spec.source = s.
C25_SourceFilteredSearch ==
    (last.op = "search" /\ last.source # <<>>) =>
        \A i \in 1..Len(last.value) : last.value[i][1] = last.source

(***************************************************************************)
(* Cache frame condition                                                   *)
(***************************************************************************)
\* C26: the cache (keys, stored instances, order) changes only in a get with
\* use_cache=true that returns, or in clear_cache; a get with
\* use_cache=false leaves it as it was and returns an instance that is not
\* in it; a get that raises, get_spec, search, list_all, list_from,
\* register_source and unregister_source leave it as it was.
C26_CacheFrame ==
    [][/\ cache' # cache =>
              \/ last'.op = "clear_cache"
              \/ /\ last'.op = "get" /\ last'.status = "ok"
                 /\ gets'.cached = gets.cached + 1
       /\ gets'.bypass # gets.bypass =>
              /\ cache' = cache
              /\ last'.status = "ok" =>
                     \A i \in 1..Len(cache') : cache'[i][2].id # last'.comp
       /\ (last'.op = "get" /\ last'.status # "ok") => cache' = cache
       /\ last'.op \in {"get_spec", "search", "list_all", "list_from", "register_source",
                        "unregister_source"} => cache' = cache
      ]_vars

\* a get with use_cache=false returned a new instance while the instance of
\* an earlier get stays cached
C26_Witness ==
    /\ last.op = "get" /\ last.status = "ok" /\ ~last.hit
    /\ gets = [cached |-> 1, bypass |-> 1]
    /\ Len(cache) = 1
    /\ cache[1][2].id = 1
    /\ last.comp = 2

(***************************************************************************)
(* Short-name precedence                                                   *)
(***************************************************************************)
\* C27 as stated: a get that resolves a short name returns the component of
\* the first source, in registration order, whose get_component succeeds,
\* after asking the sources up to that one in order and no source after it.
C27_FirstSuccessWins ==
    [][\A full_name \in RequestNames, use_cache \in BOOLEAN, params \in RequestParams :
           LET st == SourceStatuses(sources, full_name, params)
           IN  (/\ last'.op = "get"
                /\ ~IsFullyQualified(sources, full_name)
                /\ ~IsHit(use_cache, _make_cache_key(full_name, params), cache)
                /\ Get(full_name, use_cache, params)) =>
                   \A j \in 1..Len(st) :
                       (st[j] = "ok" /\ \A h \in 1..(j - 1) : st[h] # "ok") =>
                           /\ last'.status = "ok"
                           /\ last'.source = sources[j].name
                           /\ last'.called =
                                  [h \in 1..j |-> <<sources[h].name, full_name>>]
      ]_vars

\* C27: a get that resolves a short name asks the sources in registration
\* order; a source that raises not-found is followed by the next one; the
\* first source that succeeds, when no source before it raised a parameter
\* validation error, has its component returned, and no source after it is
\* asked.
C27_FirstSuccessAfterNotFound ==
    [][\A full_name \in RequestNames, use_cache \in BOOLEAN, params \in RequestParams :
           LET st == SourceStatuses(sources, full_name, params)
           IN  (/\ last'.op = "get"
                /\ ~IsFullyQualified(sources, full_name)
                /\ ~IsHit(use_cache, _make_cache_key(full_name, params), cache)
                /\ Get(full_name, use_cache, params)) =>
                   /\ \A h \in 1..Len(last'.called) :
                          last'.called[h] = <<sources[h].name, full_name>>
                   /\ \A h \in 1..Len(st) :
                          (st[h] = "KeyError" /\ h <= Len(last'.called)) =>
                              Len(last'.called) > h \/ h = Len(st)
                   /\ \A j \in 1..Len(st) :
                          (/\ st[j] = "ok"
                           /\ \A h \in 1..(j - 1) :
                                  st[h] \notin {"ok", "ParameterValidationError"}) =>
                              /\ last'.status = "ok"
                              /\ last'.source = sources[j].name
                              /\ Len(last'.called) = j
      ]_vars

\* the first source lacks the name and raised not-found, the second one was
\* asked next and its component was returned
C27_Witness ==
    /\ sources = <<SourceT2, SourceS>>
    /\ last.op = "get" /\ last.status = "ok" /\ ~last.hit
    /\ last.source = <<"s">>
    /\ last.called = << <<(<<"t">>), (<<"a">>)>>, <<(<<"s">>), (<<"a">>)>> >>

(***************************************************************************)
(* Cached components and the removal of their source                       *)
(***************************************************************************)
\* C28: register_source and unregister_source leave the cache as it is, so
\* a get with use_cache=true for a cached key is a hit that returns the
\* cached instance whatever the registered sources are now, while a get
\* that does not find the key in the cache (use_cache=false, or after
\* clear_cache) raises not-found once no registered source resolves the name.
C28_StaleEntriesSurvive ==
    [][/\ last'.op \in {"register_source", "unregister_source"} => cache' = cache
       /\ \A full_name \in CacheNames, use_cache \in BOOLEAN, params \in RequestParams :
              LET cache_key == _make_cache_key(full_name, params)
              IN  (last'.op = "get" /\ Get(full_name, use_cache, params)) =>
                      IF use_cache /\ cache_key \in CacheKeys(cache)
                      THEN /\ last'.hit /\ last'.status = "ok"
                           /\ last'.comp = CacheGet(cache, cache_key).id
                           /\ last'.source = CacheGet(cache, cache_key).spec.source
                      ELSE /\ ~last'.hit
                           /\ _get_uncached(sources, full_name, params).status = "KeyError"
                                  => last'.status = "KeyError"
      ]_vars

\* no source is registered any more and a get was answered from the cache
\* with a component of the removed source "s"
C28_Witness ==
    /\ sources = <<>>
    /\ last.op = "get" /\ last.hit /\ last.status = "ok"
    /\ last.source = <<"s">>

(***************************************************************************)
(* Several missing-required errors                                         *)
(***************************************************************************)
\* C29: when no source resolves a short name and two or more sources raise
\* the missing-required ValueError, get raises the error of the last of them
\* in registration order, never the error of an earlier one.
C29_LastValueErrorWins ==
    [][\A full_name \in RequestNames, use_cache \in BOOLEAN, params \in RequestParams :
           LET st == SourceStatuses(sources, full_name, params)
               errs == {i \in 1..Len(st) : st[i] = "ValueError"}
           IN  (/\ last'.op = "get"
                /\ ~IsFullyQualified(sources, full_name)
                /\ ~IsHit(use_cache, _make_cache_key(full_name, params), cache)
                /\ \A i \in 1..Len(st) : st[i] \in {"KeyError", "ValueError"}
                /\ Cardinality(errs) >= 2
                /\ Get(full_name, use_cache, params)) =>
                   /\ last'.status = "ValueError"
                   /\ \A i \in errs :
                          IF \A j \in errs : j <= i
                          THEN last'.source = sources[i].name
                          ELSE last'.source # sources[i].name
      ]_vars

\* both sources reported the missing parameter and the error raised is the
\* one of the source registered second
C29_Witness ==
    /\ sources = <<SourceS2, SourceT>>
    /\ last.op = "get" /\ last.status = "ValueError"
    /\ last.source = <<"t">>
    /\ last.called = << <<(<<"s">>), (<<"a">>)>>, <<(<<"t">>), (<<"a">>)>> >>

(***************************************************************************)
(* Build failures                                                          *)
(***************************************************************************)
\* C30: a build() that raises during a direct geometry access propagates to
\* the caller and leaves the component unbuilt; as long as a component is
\* unbuilt every geometry access and every validate call on it invokes
\* build() again; only a build result that is not None is stored, and once
\* one is stored build() is not invoked again.
C30_BuildFailureNotCached ==
    [][\A c \in 1..MaxComponents :
           /\ (/\ last'.op = "geometry" /\ last'.comp = c
               /\ \E outcome \in BuildOutcomes :
                      /\ Geometry(ComponentState, c, outcome).status = "raise"
                      /\ AccessGeometry(c, outcome)) =>
                  /\ last'.status = "raise"
                  /\ heap[c].geometry = 0 /\ heap'[c].geometry = 0
           /\ (/\ last'.op \in {"geometry", "validate"} /\ last'.comp = c
               /\ accesses'[c] > accesses[c]) =>
                  /\ builds'[c] = IF heap[c].geometry = 0 THEN builds[c] + 1 ELSE builds[c]
                  /\ heap'[c].geometry # 0 <=> (last'.status # "raise" /\ last'.value # 0)
                  /\ heap'[c].geometry = last'.value
           /\ heap'[c].geometry = 0 => builds'[c] = accesses'[c]
           /\ heap[c].geometry # 0 =>
                  (builds'[c] = builds[c] /\ heap'[c].geometry = heap[c].geometry)
      ]_vars

\* a direct access raised on a component whose earlier build had failed as
\* well: build() was invoked a second time and the component is still unbuilt
C30_Witness ==
    /\ last.op = "geometry" /\ last.status = "raise"
    /\ last.comp \in Allocated
    /\ heap[last.comp].kind = "base"
    /\ builds[last.comp] = 2 /\ accesses[last.comp] = 2
    /\ heap[last.comp].geometry = 0

====
